---- MODULE Spec2Model ----
(***************************************************************************)
(* A model of watchgl (src/watchgl.py): the dirty tracker (Component and   *)
(* Screen), component and screen construction, and the pixel streams       *)
(* (DummyImageStream, MonoImageStream, VerticalCropStream,                 *)
(* HorizontalCropStream).                                                  *)
(*                                                                         *)
(* Four families of specifications share the module:                       *)
(*   SpecScreen / SpecScreenFair  a constructed Screen and its components  *)
(*   SpecBuild                    Component(...) and Screen(...) calls     *)
(*   SpecStream                   a stream object and the calls on it      *)
(*   SpecDraw                     a WatchGraphics and the drawing calls    *)
(* Each family leaves the variables of the others untouched.               *)
(*                                                                         *)
(* A Python exception is the field "raised" of an operation's result; the  *)
(* state the exception leaves behind is the state at the raise.            *)
(***************************************************************************)
EXTENDS Integers, Sequences, FiniteSets, TLC

VARIABLES
    \* ---- SpecScreen: one Screen, its components, one WatchGraphics window
    components,     \* Screen.components: sequence of Component records
    update_array,   \* Screen.update_array: 9 words of 16 bits, indexed 0..8
    window_info,    \* WatchGraphics._window_info
    draw_log,       \* ids of the components whose draw callback the last call invoked, in order
    notify_log,     \* ids passed to notify_component_update by the last call, in order
    pending,        \* ghost: notify_component_update was called since the last completed draw pass
    notified,       \* ghost: the ids notified since the last completed draw pass
    tainted,        \* ghost: a draw pass raised since the last completed draw pass
    last_op,        \* ghost: the last call and its arguments
    pc,             \* "idle", or "draw_full" while draw_full is running
    n2,             \* draw_full's loop variable
    spin,           \* ghost: parity of the evaluations of draw_full's clearing loop
    \* ---- SpecBuild
    b_plan,         \* the constructor calls to make: display size and component arguments
    b_comps,        \* the Component objects constructed so far
    b_screen,       \* the Screen constructed (or the state its constructor left)
    b_out,          \* "building", "ok", "raised_component" or "raised_screen"
    \* ---- SpecStream
    stk,            \* the stream: stk[1] is the source, stk[i+1] wraps stk[i]
    s_last,         \* ghost: the last call on the outermost stream and its result
    s_init_rem,     \* ghost: get_remaining() right after construction of the outermost stream
    s_total,        \* ghost: pixels skipped plus pixels returned by reads since construction
    s_resets,       \* ghost: the calls of reset() on the outermost stream
    \* ---- SpecDraw (with window_info)
    sink,           \* the calls the last drawing call made on the display, in order
    g_last,         \* ghost: the last call on the WatchGraphics, its arguments and whether it raised
    g_image         \* the image given to the last blit, as the call left it

scrVars == <<components, update_array, window_info, draw_log, notify_log,
             pending, notified, tainted, last_op, pc, n2, spin>>
bldVars == <<b_plan, b_comps, b_screen, b_out>>
strVars == <<stk, s_last, s_init_rem, s_total, s_resets>>
drwVars == <<sink, g_last, g_image>>
vars == <<scrVars, bldVars, strVars, drwVars>>

----------------------------------------------------------------------------
(* Integer helpers: Python's >>, & and | on the non-negative values used.  *)

Pow2(k) == 2 ^ k

Shr(a, k) == a \div Pow2(k)

Bit(a, i) == (a \div Pow2(i)) % 2

RECURSIVE BitAnd(_, _)
BitAnd(a, b) ==
    IF a = 0 \/ b = 0 THEN 0
    ELSE (a % 2) * (b % 2) + 2 * BitAnd(a \div 2, b \div 2)

RECURSIVE BitOr(_, _)
BitOr(a, b) ==
    IF a = 0 THEN b
    ELSE IF b = 0 THEN a
    ELSE (IF a % 2 = 1 \/ b % 2 = 1 THEN 1 ELSE 0) + 2 * BitOr(a \div 2, b \div 2)

Min(a, b) == IF a < b THEN a ELSE b
Max(a, b) == IF a > b THEN a ELSE b

Word16(v) == v % 65536

----------------------------------------------------------------------------
(* Program constants.                                                      *)

TILE_SIZE == 16
TILE_SIZE_DIV == 4
TILE_SIZE_MOD_MASK == 16777200      \* 0xfffff0
MAX_TILES_PER_DIM == 16
MAX_COMPONENTS == 127
UPDATE_WORDS == 9
SX_WIDTH == 0
SX_HEIGHT == 1
SX_REMAINING == 2
MIS_CBYTE == 3
MIS_INDEX == 4
MIS_REM_IN_L == 5
MIS_REM_IN_B == 6
DEFAULT_TEXT_FGCOLOR == 65535

----------------------------------------------------------------------------
(* Bounds of the model.                                                    *)

MaxComponents == 2      \* a Screen of SpecScreen holds 1..MaxComponents components
MaxNotifyId == 2        \* notify_component_update is called with ids 0..MaxNotifyId

Keys == {"k"}
Vals == {1, 2}

----------------------------------------------------------------------------
(* Component and Screen construction.                                      *)

\* Component._state is a dict: a function whose domain is the set of stored keys.
EmptyState == [k \in {} |-> 0]

\* The condition under which Component.__init__ raises.
Component_invalid(x, y, width, height) ==
    \/ x < 0 \/ BitAnd(x, TILE_SIZE_MOD_MASK) # 0
    \/ y < 0 \/ BitAnd(y, TILE_SIZE_MOD_MASK) # 0
    \/ width <= 0 \/ BitAnd(width, TILE_SIZE_MOD_MASK) # 0
    \/ height <= 0 \/ BitAnd(height, TILE_SIZE_MOD_MASK) # 0

\* Component.__init__: the new object, or raised.
Component_init(x, y, width, height) ==
    IF Component_invalid(x, y, width, height)
    THEN [raised |-> TRUE, obj |-> << >>]
    ELSE [raised |-> FALSE,
          obj |-> [x |-> x, y |-> y, width |-> width, height |-> height,
                   state |-> EmptyState, dirty |-> TRUE,
                   screen |-> "dummy", cid |-> 0, draw |-> 0]]

\* DisplaySpec: the fields Screen.__init__ reads.
DisplaySpec(width, height) ==
    [width |-> width, height |-> height,
     tiled_height |-> Shr(height, TILE_SIZE_DIV),
     tiled_width |-> Shr(width, TILE_SIZE_DIV)]

\* The inner loop of the overlap check: columns i..cx1-1 of row cyp, against the
\* word `value` read before the loop.
RECURSIVE Screen_mark_cols(_, _, _, _, _)
Screen_mark_cols(bitfield, value, cyp, i, cx1) ==
    IF i >= cx1 THEN [raised |-> FALSE, bitfield |-> bitfield]
    ELSE IF Bit(value, i) = 1 THEN [raised |-> TRUE, bitfield |-> bitfield]
    ELSE Screen_mark_cols([bitfield EXCEPT ![cyp] = BitOr(@, Pow2(i))],
                          value, cyp, i + 1, cx1)

\* The outer loop of the overlap check: rows cyp..cy1-1.
RECURSIVE Screen_mark_rows(_, _, _, _, _)
Screen_mark_rows(bitfield, cyp, cy1, cx0, cx1) ==
    IF cyp >= cy1 THEN [raised |-> FALSE, bitfield |-> bitfield]
    ELSE LET r == Screen_mark_cols(bitfield, bitfield[cyp], cyp, cx0, cx1) IN
         IF r.raised THEN r
         ELSE Screen_mark_rows(r.bitfield, cyp + 1, cy1, cx0, cx1)

\* Screen_register_one with the ids counted from 0.
Screen_register_one_from_zero(self, a, n, tiled_height, tiled_width) ==
    IF a.raised THEN a
    ELSE LET c == a.components[n]
             cy0 == Shr(c.y, TILE_SIZE_DIV)
             cy1 == cy0 + Shr(c.height, TILE_SIZE_DIV)
             cx0 == Shr(c.x, TILE_SIZE_DIV)
             cx1 == cx0 + Shr(c.width, TILE_SIZE_DIV)
         IN IF cy1 > tiled_height \/ cx1 > tiled_width
            THEN [a EXCEPT !.raised = TRUE, !.why = "bounds"]
            ELSE LET r == Screen_mark_rows(a.bitfield, cy0, cy1, cx0, cx1) IN
                 IF r.raised
                 THEN [a EXCEPT !.raised = TRUE, !.why = "overlap", !.bitfield = r.bitfield]
                 ELSE [a EXCEPT !.components[n].screen = self,
                                !.components[n].cid = a.cid - 1,
                                !.bitfield = r.bitfield,
                                !.cid = a.cid + 1]

\* One pass of the loop over the component list, for list position n (1-based).
\* a holds the list as it is so far (registered components carry screen and
\* cid), the overlap map, the next id and whether an earlier pass raised.  self
\* names the Screen object under construction.
Screen_register_one(self, a, n, tiled_height, tiled_width) ==
    IF a.raised THEN a
    ELSE LET c == a.components[n]
             cy0 == Shr(c.y, TILE_SIZE_DIV)
             cy1 == cy0 + Shr(c.height, TILE_SIZE_DIV)
             cx0 == Shr(c.x, TILE_SIZE_DIV)
             cx1 == cx0 + Shr(c.width, TILE_SIZE_DIV)
         IN IF cy1 > tiled_height \/ cx1 > tiled_width
            THEN [a EXCEPT !.raised = TRUE, !.why = "bounds"]
            ELSE LET r == Screen_mark_rows(a.bitfield, cy0, cy1, cx0, cx1) IN
                 IF r.raised
                 THEN [a EXCEPT !.raised = TRUE, !.why = "overlap", !.bitfield = r.bitfield]
                 ELSE [a EXCEPT !.components[n].screen = self,
                                !.components[n].cid = a.cid,
                                !.bitfield = r.bitfield,
                                !.cid = a.cid + 1]

\* The loop over the component list, list positions lo..hi in order; the range is
\* walked by halves, which keeps the nesting of the evaluation shallow for long
\* lists.
RECURSIVE Screen_register(_, _, _, _, _, _)
Screen_register(self, a, lo, hi, tiled_height, tiled_width) ==
    IF lo > hi THEN a
    ELSE IF lo = hi THEN Screen_register_one(self, a, lo, tiled_height, tiled_width)
    ELSE LET first == Screen_register(self, a, lo, (lo + hi) \div 2,
                                      tiled_height, tiled_width)
         IN IF first.raised THEN first
            ELSE Screen_register(self, first, (lo + hi) \div 2 + 1, hi,
                                 tiled_height, tiled_width)

ZeroWords(n) == [i \in 0 .. (n - 1) |-> 0]

\* Screen.__init__(bgcolor, display_spec, components).  The row map com_map_y,
\* which only the scrolling code reads, is left out.
Screen_init(self, display_spec, cs) ==
    IF Len(cs) > MAX_COMPONENTS
    THEN [self |-> self, raised |-> TRUE, why |-> "count", components |-> cs,
          bitfield |-> ZeroWords(2 * MAX_TILES_PER_DIM), update_array |-> ZeroWords(UPDATE_WORDS)]
    ELSE LET tiled_height == Shr(display_spec.width, TILE_SIZE_DIV)
             tiled_width == Shr(display_spec.height, TILE_SIZE_DIV)
             r == Screen_register(self,
                                  [raised |-> FALSE, why |-> "", components |-> cs,
                                   bitfield |-> ZeroWords(2 * MAX_TILES_PER_DIM),
                                   cid |-> 1],
                                  1, Len(cs), tiled_height, tiled_width)
         IN [self |-> self, raised |-> r.raised, why |-> r.why, components |-> r.components,
             bitfield |-> r.bitfield, update_array |-> ZeroWords(UPDATE_WORDS)]

----------------------------------------------------------------------------
(* The dirty tracker.  An operation takes and returns a record scr with    *)
(* the fields components, update_array, window_info, draw_log, notify_log  *)
(* and raised.                                                             *)

\* notify_component_update with blocks of eight ids.
notify_component_update_bytes(ua, cid) ==
    LET byti == 1 + Shr(cid, 3)
        biti == BitAnd(cid, 15)
        ua1 == [ua EXCEPT ![0] = Word16(BitOr(@, Pow2(byti)))]
    IN [ua1 EXCEPT ![byti] = Word16(BitOr(@, Pow2(biti)))]

\* Screen.notify_component_update on the update array.
notify_component_update(ua, cid) ==
    LET byti == 1 + Shr(cid, 4)
        biti == BitAnd(cid, 15)
        ua1 == [ua EXCEPT ![0] = Word16(BitOr(@, Pow2(byti)))]
    IN [ua1 EXCEPT ![byti] = Word16(BitOr(@, Pow2(biti)))]

\* A call self._screen.notify_component_update(cid) made by a component.
Screen_notify(scr, cid) ==
    [scr EXCEPT !.update_array = notify_component_update(@, cid),
                !.notify_log = Append(@, cid)]

\* The dict assignment self._state[k] = v.
DictSet(state, k, v) ==
    [kk \in (DOMAIN state) \cup {k} |-> IF kk = k THEN v ELSE state[kk]]

\* set_var without its test for an unchanged value.
set_var_always(scr, i, k, v) ==
    LET c == scr.components[i]
        scr1 == [scr EXCEPT !.components[i].state = DictSet(c.state, k, v)]
    IN IF ~c.dirty
       THEN [Screen_notify(scr1, c.cid) EXCEPT !.components[i].dirty = TRUE]
       ELSE scr1

\* Component.set_var(k, v) of the component at list position i (1-based).
set_var(scr, i, k, v) ==
    LET c == scr.components[i] IN
    IF k \in DOMAIN c.state /\ c.state[k] = v THEN scr
    ELSE LET scr1 == [scr EXCEPT !.components[i].state = DictSet(c.state, k, v)] IN
         IF ~c.dirty
         THEN [Screen_notify(scr1, c.cid) EXCEPT !.components[i].dirty = TRUE]
         ELSE scr1

\* set_var_q that marks the component as set_var does.
set_var_q_loud(scr, i, k, v) ==
    set_var(scr, i, k, v)

\* Component.set_var_q(k, v).
set_var_q(scr, i, k, v) ==
    [scr EXCEPT !.components[i].state = DictSet(@, k, v)]

\* Component.init_vars(state).
init_vars(scr, i, state) ==
    LET c == scr.components[i]
        scr1 == [scr EXCEPT !.components[i].state = state]
    IN IF ~c.dirty
       THEN [Screen_notify(scr1, c.cid) EXCEPT !.components[i].dirty = TRUE]
       ELSE scr1

\* WatchGraphics._set_component_context: the window it leaves.
set_component_context(x, y, width, height, shift_y) ==
    [width |-> width, height |-> height, xpos |-> x, ypos |-> y, yshift |-> shift_y]

\* The value a drawing callback stores: one that differs from the stored one.
OtherValue(state, k) ==
    IF k \in DOMAIN state /\ state[k] = 1 THEN 2 ELSE 1

\* The call com.draw(com, wg) of the component at list position i.  The field
\* draw names the callback: 0 draws and touches no component, j > 0 draws and
\* calls set_var with a changed value on the component at list position j.
Component_draw(scr, i) ==
    LET j == scr.components[i].draw
        scr1 == [scr EXCEPT !.draw_log = Append(@, scr.components[i].cid)]
    IN IF j = 0 THEN scr1
       ELSE set_var(scr1, j, "k", OtherValue(scr1.components[j].state, "k"))

\* The body both draw modes run for one component: window, callback, dirty flag.
Screen_draw_one(scr, i) ==
    LET com == scr.components[i]
        scr1 == [scr EXCEPT !.window_info =
                     set_component_context(com.x, com.y, com.width, com.height, 0)]
    IN [Component_draw(scr1, i) EXCEPT !.components[i].dirty = FALSE]

\* draw_lazy's inner loop over the bits of one block word.  self.components[cid]
\* is a Python list access: position cid + 1 here, IndexError when cid >= len.
RECURSIVE draw_lazy_ids(_, _, _, _)
draw_lazy_ids(scr, value, id_block_off, id_sub) ==
    IF ~(id_sub < 16) THEN scr
    ELSE LET id_sub1 == id_sub + 1
             id_used == value % 2
             value1 == value \div 2
         IN IF id_used = 0
            THEN IF value1 = 0 THEN scr
                 ELSE draw_lazy_ids(scr, value1, id_block_off, id_sub1)
            ELSE LET cid == id_block_off + id_sub1 IN
                 IF cid >= Len(scr.components)
                 THEN [scr EXCEPT !.raised = TRUE]
                 ELSE draw_lazy_ids(Screen_draw_one(scr, cid + 1), value1,
                                    id_block_off, id_sub1)

\* draw_lazy's outer loop over the blocks named by the summary word.
RECURSIVE draw_lazy_blocks(_, _, _, _)
draw_lazy_blocks(scr, update_bitfield, id_block_off, byti) ==
    IF ~(byti < 8 + 1) THEN scr
    ELSE LET off1 == id_block_off + 16
             id_block_used == update_bitfield % 2
             byti1 == byti + 1
             bf1 == update_bitfield \div 2
         IN IF id_block_used = 0
            THEN IF bf1 = 0 THEN scr
                 ELSE draw_lazy_blocks(scr, bf1, off1, byti1)
            ELSE LET value == scr.update_array[byti1]
                     scr1 == [scr EXCEPT !.update_array[byti1] = 0]
                     scr2 == draw_lazy_ids(scr1, value, off1, 0)
                 IN IF scr2.raised THEN scr2
                    ELSE draw_lazy_blocks(scr2, bf1, off1, byti1)

\* draw_lazy that sweeps the components' dirty flags instead of the bitfield.
RECURSIVE draw_dirty_components(_, _)
draw_dirty_components(scr, i) ==
    IF i > Len(scr.components) THEN scr
    ELSE draw_dirty_components(
             IF scr.components[i].dirty THEN Screen_draw_one(scr, i) ELSE scr, i + 1)

draw_lazy_by_flag(scr) ==
    [draw_dirty_components(scr, 1) EXCEPT !.update_array = ZeroWords(UPDATE_WORDS)]

\* Screen.draw_lazy(wg).
draw_lazy(scr) ==
    IF scr.update_array[0] = 0 THEN scr
    ELSE LET r == draw_lazy_blocks(scr, Shr(scr.update_array[0], 1), 0 - 16, 0) IN
         IF r.raised THEN r
         ELSE [r EXCEPT !.update_array[0] = 0]

\* One evaluation of draw_full's loop "while n2 < 9: update_array[n2] = 0": the
\* body assigns the word and leaves n2 as it is.
draw_full_clear(ua, n) == [ua EXCEPT ![n] = 0]

\* draw_full's loop over self.components, from list position i.
RECURSIVE draw_full_components(_, _)
draw_full_components(scr, i) ==
    IF i > Len(scr.components) THEN scr
    ELSE draw_full_components(Screen_draw_one(scr, i), i + 1)

----------------------------------------------------------------------------
(* SpecScreen: a Screen built from 1..MaxComponents components, and the    *)
(* calls a program makes on it and on its components.                      *)

\* The Screen and window as an operation finds them.
Scr ==
    [components |-> components, update_array |-> update_array,
     window_info |-> window_info, draw_log |-> << >>, notify_log |-> << >>,
     raised |-> FALSE]

\* The record of a call: what was called, with what, and whether it raised.
Call(op, i, k, v, cid, raised) ==
    [op |-> op, i |-> i, k |-> k, v |-> v, cid |-> cid, raised |-> raised]

SeqRange(q) == {q[j] : j \in 1 .. Len(q)}

\* What every call that returns to an idle program leaves.
Commit(scr, call) ==
    /\ components' = scr.components
    /\ update_array' = scr.update_array
    /\ window_info' = scr.window_info
    /\ draw_log' = scr.draw_log
    /\ notify_log' = scr.notify_log
    /\ last_op' = call
    /\ UNCHANGED <<pc, n2, spin>>

\* The ghosts after a call that drew nothing.
CommitNotified(scr) ==
    /\ pending' = (pending \/ scr.notify_log # << >>)
    /\ notified' = notified \cup SeqRange(scr.notify_log)
    /\ UNCHANGED tainted

ScreenDisplay == DisplaySpec(2 * TILE_SIZE, 2 * TILE_SIZE)

\* n components the constructor accepts, in list order.
NewComponents(n) == [i \in 1 .. n |-> Component_init(i - 1, 0, i, 1).obj]

AllStates == UNION {[D -> Vals] : D \in SUBSET Keys}

ScreenUnused ==
    /\ components = << >> /\ update_array = << >> /\ window_info = << >>
    /\ draw_log = << >> /\ notify_log = << >> /\ pending = FALSE /\ notified = {}
    /\ tainted = FALSE /\ last_op = << >> /\ pc = "unused" /\ n2 = 0 /\ spin = 0

BuildUnused ==
    /\ b_plan = << >> /\ b_comps = << >> /\ b_screen = << >> /\ b_out = "unused"

StreamUnused ==
    /\ stk = << >> /\ s_last = << >> /\ s_init_rem = 0
    /\ s_total = 0 /\ s_resets = 0

DrawUnused ==
    /\ sink = << >> /\ g_last = << >> /\ g_image = << >>

InitScreen ==
    /\ \E n \in 1 .. MaxComponents :
          LET s == Screen_init("self", ScreenDisplay, NewComponents(n)) IN
          /\ ~s.raised
          /\ components = s.components
          /\ update_array = s.update_array
    /\ window_info = set_component_context(0, 0, ScreenDisplay.width, ScreenDisplay.height, 0)
    /\ draw_log = << >>
    /\ notify_log = << >>
    /\ pending = FALSE
    /\ notified = {}
    /\ tainted = FALSE
    /\ last_op = Call("init", 0, "", 0, 0, FALSE)
    /\ pc = "idle"
    /\ n2 = 0
    /\ spin = 0
    /\ BuildUnused
    /\ StreamUnused
    /\ DrawUnused

\* screen.notify_component_update(cid), called by the program.
NotifyComponentUpdate ==
    /\ pc = "idle"
    /\ \E cid \in 0 .. MaxNotifyId :
          LET scr == Screen_notify(Scr, cid) IN
          /\ Commit(scr, Call("notify_component_update", 0, "", 0, cid, FALSE))
          /\ CommitNotified(scr)
    /\ UNCHANGED <<bldVars, strVars, drwVars>>

\* component.set_var(k, v).
SetVar ==
    /\ pc = "idle"
    /\ \E i \in 1 .. Len(components), k \in Keys, v \in Vals :
          LET scr == set_var(Scr, i, k, v) IN
          /\ Commit(scr, Call("set_var", i, k, v, components[i].cid, FALSE))
          /\ CommitNotified(scr)
    /\ UNCHANGED <<bldVars, strVars, drwVars>>

\* component.set_var_q(k, v).
SetVarQ ==
    /\ pc = "idle"
    /\ \E i \in 1 .. Len(components), k \in Keys, v \in Vals :
          LET scr == set_var_q(Scr, i, k, v) IN
          /\ Commit(scr, Call("set_var_q", i, k, v, components[i].cid, FALSE))
          /\ CommitNotified(scr)
    /\ UNCHANGED <<bldVars, strVars, drwVars>>

\* component.init_vars(state).
InitVars ==
    /\ pc = "idle"
    /\ \E i \in 1 .. Len(components), st \in AllStates :
          LET scr == init_vars(Scr, i, st) IN
          /\ Commit(scr, Call("init_vars", i, "", 0, components[i].cid, FALSE))
          /\ CommitNotified(scr)
    /\ UNCHANGED <<bldVars, strVars, drwVars>>

\* screen.draw_lazy(wg).  A pass that returns is a completed draw pass; one that
\* raises leaves its bits pending.
DrawLazy ==
    /\ pc = "idle"
    /\ LET scr == draw_lazy(Scr) IN
       /\ Commit(scr, Call("draw_lazy", 0, "", 0, 0, scr.raised))
       /\ pending' = (scr.raised /\ pending)
       /\ notified' = (IF scr.raised THEN notified ELSE {})
       /\ tainted' = scr.raised
    /\ UNCHANGED <<bldVars, strVars, drwVars>>

\* screen.draw_full(wg) is entered.
DrawFullCall ==
    /\ pc = "idle"
    /\ pc' = "draw_full"
    /\ n2' = 0
    /\ spin' = 0
    /\ draw_log' = << >>
    /\ notify_log' = << >>
    /\ last_op' = Call("draw_full", 0, "", 0, 0, FALSE)
    /\ UNCHANGED <<components, update_array, window_info, pending, notified, tainted>>
    /\ UNCHANGED <<bldVars, strVars, drwVars>>

\* draw_full runs: one evaluation of the clearing loop while its condition holds,
\* and after it the loop over the components and the return.
DrawFullStep ==
    /\ pc = "draw_full"
    /\ IF n2 < UPDATE_WORDS
       THEN /\ update_array' = draw_full_clear(update_array, n2)
            /\ spin' = 1 - spin
            /\ UNCHANGED <<components, window_info, draw_log, notify_log, pending,
                           notified, tainted, last_op, pc, n2>>
       ELSE LET scr == draw_full_components(Scr, 1) IN
            /\ components' = scr.components
            /\ window_info' = scr.window_info
            /\ draw_log' = scr.draw_log
            /\ pc' = "idle"
            /\ pending' = FALSE
            /\ notified' = {}
            /\ tainted' = FALSE
            /\ UNCHANGED <<update_array, notify_log, last_op, n2, spin>>
    /\ UNCHANGED <<bldVars, strVars, drwVars>>

NextScreen ==
    \/ NotifyComponentUpdate
    \/ SetVar
    \/ SetVarQ
    \/ InitVars
    \/ DrawLazy
    \/ DrawFullCall
    \/ DrawFullStep

SpecScreen == InitScreen /\ [][NextScreen]_vars

\* draw_full runs on once it is called: nothing else is scheduled.
SpecScreenFair == SpecScreen /\ WF_vars(DrawFullStep)

----------------------------------------------------------------------------
(* Claims about the dirty tracker.                                         *)

RECURSIVE SortedSeq(_)
SortedSeq(S) ==
    IF S = {} THEN << >>
    ELSE LET m == CHOOSE x \in S : \A y \in S : x <= y IN
         <<m>> \o SortedSeq(S \ {m})

RegisteredIds == {components[i].cid : i \in 1 .. Len(components)}

AllWordsZero(ua) == \A w \in 0 .. (UPDATE_WORDS - 1) : ua[w] = 0

\* C1: after notify_component_update was called for exactly the ids of a set S of
\* registered components, one draw_lazy call draws every component of S once, in
\* ascending id order, and no other; afterwards no component of S is dirty and
\* no bit of the bitfield is set.
C1_LazyDrawsNotifiedSet ==
    [][(/\ last_op'.op = "draw_lazy"
        /\ pending /\ ~tainted
        /\ notified # {}
        /\ notified \subseteq RegisteredIds)
       => (/\ ~last_op'.raised
           /\ draw_log' = SortedSeq(notified)
           /\ \A i \in 1 .. Len(components) :
                 components[i].cid \in notified => ~components'[i].dirty
           /\ AllWordsZero(update_array'))]_vars

AllCids == [i \in 1 .. Len(components) |-> components[i].cid]

\* C2: draw_full terminates, having drawn every component once in list order, with
\* every dirty flag false and every word of the bitfield zero.
C2_DrawFullTerminates ==
    (pc = "draw_full")
        ~> (/\ pc = "idle"
            /\ draw_log = AllCids
            /\ \A i \in 1 .. Len(components) : ~components[i].dirty
            /\ AllWordsZero(update_array))

\* C4: set_var(k, v) changes nothing when k is stored with a value equal to v;
\* otherwise the store maps k to v, and a component that was not dirty becomes
\* dirty with exactly one notify_component_update call, for its id, while a
\* component that was dirty issues no call.
C4_SetVar ==
    [][(last_op'.op = "set_var")
       => LET i == last_op'.i
              k == last_op'.k
              v == last_op'.v
              c == components[i]
              d == components'[i]
          IN /\ \A j \in 1 .. Len(components) : j # i => components'[j] = components[j]
             /\ draw_log' = << >>
             /\ IF k \in DOMAIN c.state /\ c.state[k] = v
                THEN /\ d = c
                     /\ update_array' = update_array
                     /\ notify_log' = << >>
                ELSE /\ DOMAIN d.state = (DOMAIN c.state) \cup {k}
                     /\ d.state[k] = v
                     /\ \A kk \in DOMAIN c.state : kk # k => d.state[kk] = c.state[kk]
                     /\ d = [c EXCEPT !.state = d.state, !.dirty = TRUE]
                     /\ IF c.dirty
                        THEN notify_log' = << >> /\ update_array' = update_array
                        ELSE /\ notify_log' = <<c.cid>>
                             /\ update_array' = notify_component_update(update_array, c.cid)]_vars

\* C4's case: a set_var with a changed value on a component that was not dirty.
C4_Witness ==
    /\ last_op.op = "set_var"
    /\ notify_log = <<last_op.cid>>
    /\ components[last_op.i].dirty
    /\ components[last_op.i].state[last_op.k] = last_op.v

\* C5: set_var_q(k, v) changes only the store entry for k: the dirty flag and every
\* word of the bitfield stay as they are, and a following draw_lazy draws what it
\* would have drawn without the call.
C5_SetVarQuiet ==
    [][(last_op'.op = "set_var_q")
       => LET i == last_op'.i
              k == last_op'.k
              v == last_op'.v
              c == components[i]
              d == components'[i]
          IN /\ \A j \in 1 .. Len(components) : j # i => components'[j] = components[j]
             /\ d = [c EXCEPT !.state = d.state]
             /\ DOMAIN d.state = (DOMAIN c.state) \cup {k}
             /\ d.state[k] = v
             /\ \A kk \in DOMAIN c.state : kk # k => d.state[kk] = c.state[kk]
             /\ update_array' = update_array
             /\ notify_log' = << >>
             /\ draw_log' = << >>
             /\ draw_lazy(Scr').draw_log = draw_lazy(Scr).draw_log]_vars

\* C5's case: a quiet update that changed the value of a component that is not dirty.
C5_Witness ==
    /\ last_op.op = "set_var_q"
    /\ ~components[last_op.i].dirty
    /\ components[last_op.i].state[last_op.k] = last_op.v
    /\ update_array[0] = 0

\* C6: draw_lazy with no pending update invokes no draw callback and changes
\* neither the window, nor the bitfield, nor any dirty flag.
C6_LazyIdle ==
    [][(last_op'.op = "draw_lazy" /\ ~pending)
       => (/\ ~last_op'.raised
           /\ draw_log' = << >>
           /\ window_info' = window_info
           /\ update_array' = update_array
           /\ components' = components)]_vars

\* C6's case: a draw_lazy that found nothing pending while a component is dirty.
C6_Witness ==
    /\ last_op.op = "draw_lazy"
    /\ ~last_op.raised
    /\ draw_log = << >>
    /\ \E i \in 1 .. Len(components) : components[i].dirty

----------------------------------------------------------------------------
(* The pixel streams.  A stream is a sequence st of records: st[1] is the  *)
(* source (DummyImageStream or MonoImageStream) and st[lv + 1] is the      *)
(* crop whose _instream is st[lv].   An operation on the stream at level   *)
(* lv returns the record [stk, r, out, raised]: the objects after the      *)
(* call, the value returned, the pixels written to the buffer and whether  *)
(* the call raised.  A pixel of a MonoImageStream is its 16-bit colour; a  *)
(* DummyImageStream writes nothing, and its pixel is shown as the position *)
(* it has in the image.                                                    *)
(*                                                                         *)
(* oob is what a load raw_data[index] beyond the data does in this call:   *)
(* IndexError on a memoryview (oob.raise), or the byte oob.byte that lies  *)
(* there in memory when raw_data is a viper ptr8.                          *)

Ret(st, r, out, raised) == [stk |-> st, r |-> r, out |-> out, raised |-> raised]

\* The clamp every skip_pixels and read_pixels starts with.
Clamp(n, remaining) == IF n > remaining THEN remaining ELSE n

\* DummyImageStream(width, height).
Dummy_init(width, height) ==
    [kind |-> "dummy", width |-> width, height |-> height, remaining |-> width * height]

\* DummyImageStream.reset.
Dummy_reset(s) == [s EXCEPT !.remaining = s.width * s.height]

\* DummyImageStream.skip_pixels.
Dummy_skip(s, n) ==
    LET n1 == Clamp(n, s.remaining) IN
    IF n1 <= 0 THEN s ELSE [s EXCEPT !.remaining = @ - n1]

\* DummyImageStream.read_pixels: the object after the call and the value returned.
Dummy_read(s, n) ==
    LET n1 == Clamp(n, s.remaining) IN
    IF n1 <= 0 THEN [s |-> s, r |-> 0, out |-> << >>]
    ELSE [s |-> [s EXCEPT !.remaining = @ - n1], r |-> n1,
          out |-> [j \in 1 .. n1 |-> s.width * s.height - s.remaining + j - 1]]

\* The palette a MonoImageStream is constructed with.
PALETTE2_INITALIZER == <<0, DEFAULT_TEXT_FGCOLOR>>

\* MonoImageStream._setup(raw_data, width, height) on a new object, for
\* width > 0 and height > 0 (it raises otherwise).  _extra_state is the array es.
Mono_setup(raw_data, width, height) ==
    LET rem_in_l == width IN
    [kind |-> "mono", width |-> width, height |-> height, raw_data |-> raw_data,
     n_pixels |-> width * height, palette |-> PALETTE2_INITALIZER,
     es |-> (SX_WIDTH :> width) @@ (SX_HEIGHT :> height)
            @@ (SX_REMAINING :> width * height)
            @@ (MIS_CBYTE :> raw_data[1])
            @@ (MIS_INDEX :> 0)
            @@ (MIS_REM_IN_L :> rem_in_l)
            @@ (MIS_REM_IN_B :> IF rem_in_l < 8 THEN rem_in_l ELSE 8)]

\* MonoImageStream.reset: the assignments of the method, in its order and with the
\* array indices it writes.
Mono_reset(s) ==
    LET e1 == [s.es EXCEPT ![SX_REMAINING] = s.n_pixels]
        e2 == [e1 EXCEPT ![2] = s.raw_data[1]]
        e3 == [e2 EXCEPT ![3] = 0]
        e4 == [e3 EXCEPT ![4] = s.width]
        e5 == [e4 EXCEPT ![5] = 8]
        e6 == IF e5[4] < 8 THEN [e5 EXCEPT ![5] = e5[2]] ELSE e5
    IN [s EXCEPT !.es = e6]

\* The locals of the decoding loops.
MonoLocals(s) ==
    [cbyte |-> s.es[MIS_CBYTE], index |-> s.es[MIS_INDEX],
     rem_in_b |-> s.es[MIS_REM_IN_B], rem_in_l |-> s.es[MIS_REM_IN_L],
     remaining |-> s.es[SX_REMAINING], raised |-> FALSE, out |-> << >>]

\* The stores that end skip_pixels and read_pixels.
MonoStore(s, l) ==
    [s EXCEPT !.es = [@ EXCEPT ![SX_REMAINING] = l.remaining,
                               ![MIS_CBYTE] = l.cbyte,
                               ![MIS_INDEX] = l.index,
                               ![MIS_REM_IN_B] = l.rem_in_b,
                               ![MIS_REM_IN_L] = l.rem_in_l]]

\* The end of one pass of either loop, after the four decrements and the test
\* for exhaustion: the reload of cbyte when the byte is used up.
Mono_next_byte(s, l, oob) ==
    IF l.rem_in_b = 0
    THEN LET l1 == IF l.rem_in_l = 0
                   THEN [l EXCEPT !.rem_in_b = 8, !.rem_in_l = s.es[SX_WIDTH]]
                   ELSE IF l.rem_in_l < 8
                        THEN [l EXCEPT !.rem_in_b = l.rem_in_l]
                        ELSE [l EXCEPT !.rem_in_b = 8]
             index == l.index + 1
         IN IF index < Len(s.raw_data)
            THEN [l1 EXCEPT !.index = index, !.cbyte = s.raw_data[index + 1]]
            ELSE IF oob.raise THEN [l1 EXCEPT !.index = index, !.raised = TRUE]
            ELSE [l1 EXCEPT !.index = index, !.cbyte = oob.byte]
    ELSE l

\* The loop of MonoImageStream.skip_pixels; count is its counter n2.
RECURSIVE Mono_skip_loop(_, _, _, _)
Mono_skip_loop(s, l, count, oob) ==
    IF ~(count > 0) \/ l.raised THEN l
    ELSE LET l1 == [l EXCEPT !.cbyte = Shr(@, 1), !.rem_in_b = @ - 1,
                             !.rem_in_l = @ - 1, !.remaining = @ - 1]
         IN IF l1.remaining <= 0 THEN l1
            ELSE Mono_skip_loop(s, Mono_next_byte(s, l1, oob), count - 1, oob)

\* The loop of MonoImageStream.read_pixels: the colour palette[cbyte & 1] goes to
\* the buffer as its low and its high byte.
RECURSIVE Mono_read_loop(_, _, _, _)
Mono_read_loop(s, l, count, oob) ==
    IF ~(count > 0) \/ l.raised THEN l
    ELSE LET color == s.palette[(l.cbyte % 2) + 1]
             pixel == (color % 256) + 256 * (Shr(color, 8) % 256)
             l1 == [l EXCEPT !.out = Append(@, pixel),
                             !.cbyte = Shr(@, 1), !.rem_in_b = @ - 1,
                             !.rem_in_l = @ - 1, !.remaining = @ - 1]
         IN IF l1.remaining <= 0 THEN l1
            ELSE Mono_read_loop(s, Mono_next_byte(s, l1, oob), count - 1, oob)

\* skip_pixels without the store of the current byte.
Mono_skip_stale_byte(s, n, oob) ==
    LET n1 == Clamp(n, s.es[SX_REMAINING]) IN
    IF n1 <= 0 THEN [s |-> s, r |-> 0, out |-> << >>, raised |-> FALSE]
    ELSE LET l == Mono_skip_loop(s, MonoLocals(s), n1, oob) IN
         IF l.raised THEN [s |-> s, r |-> 0, out |-> << >>, raised |-> TRUE]
         ELSE [s |-> MonoStore(s, [l EXCEPT !.cbyte = s.es[MIS_CBYTE]]),
               r |-> 0, out |-> << >>, raised |-> FALSE]

\* MonoImageStream.skip_pixels: the object after the call, and whether it raised
\* (the locals are stored only when the loop ends).
Mono_skip(s, n, oob) ==
    LET n1 == Clamp(n, s.es[SX_REMAINING]) IN
    IF n1 <= 0 THEN [s |-> s, r |-> 0, out |-> << >>, raised |-> FALSE]
    ELSE LET l == Mono_skip_loop(s, MonoLocals(s), n1, oob) IN
         IF l.raised THEN [s |-> s, r |-> 0, out |-> << >>, raised |-> TRUE]
         ELSE [s |-> MonoStore(s, l), r |-> 0, out |-> << >>, raised |-> FALSE]

\* MonoImageStream.read_pixels.
Mono_read(s, n, oob) ==
    LET n1 == IF n >= s.es[SX_REMAINING] THEN s.es[SX_REMAINING] ELSE n IN
    IF n1 <= 0 THEN [s |-> s, r |-> 0, out |-> << >>, raised |-> FALSE]
    ELSE LET l == Mono_read_loop(s, MonoLocals(s), n1, oob) IN
         IF l.raised THEN [s |-> s, r |-> 0, out |-> l.out, raised |-> TRUE]
         ELSE [s |-> MonoStore(s, l), r |-> n1, out |-> l.out, raised |-> FALSE]

\* get_remaining() of the stream at level lv.
get_remaining(st, lv) ==
    IF st[lv].kind = "mono" THEN st[lv].es[SX_REMAINING] ELSE st[lv].remaining

RECURSIVE Stream_skip(_, _, _, _)
RECURSIVE Stream_read(_, _, _, _)
RECURSIVE Stream_reset(_, _, _)

\* VerticalCropStream.skip_pixels without the store of the remaining count.
VCrop_skip_uncounted(st, lv, n, oob) ==
    LET remaining == st[lv].remaining
        n1 == Clamp(n, remaining)
    IN IF n1 <= 0 THEN Ret(st, 0, << >>, FALSE)
       ELSE Stream_skip(st, lv - 1, n1, oob)

\* VerticalCropStream.skip_pixels of the crop at level lv.
VCrop_skip(st, lv, n, oob) ==
    LET remaining == st[lv].remaining
        n1 == Clamp(n, remaining)
    IN IF n1 <= 0 THEN Ret(st, 0, << >>, FALSE)
       ELSE LET i == Stream_skip(st, lv - 1, n1, oob) IN
            IF i.raised THEN i
            ELSE Ret([i.stk EXCEPT ![lv].remaining = remaining - n1], 0, << >>, FALSE)

\* VerticalCropStream.read_pixels.
VCrop_read(st, lv, n, oob) ==
    LET remaining == st[lv].remaining
        n1 == Clamp(n, remaining)
    IN IF n1 <= 0 THEN Ret(st, 0, << >>, FALSE)
       ELSE LET i == Stream_read(st, lv - 1, n1, oob) IN
            IF i.raised THEN i
            ELSE Ret([i.stk EXCEPT ![lv].remaining = remaining - i.r], i.r, i.out, FALSE)

\* VerticalCropStream.reset.
VCrop_reset(st, lv, oob) ==
    LET c == st[lv]
        i1 == Stream_reset(st, lv - 1, oob)
    IN IF i1.raised THEN i1
       ELSE LET i2 == Stream_skip(i1.stk, lv - 1, c.skip, oob) IN
            IF i2.raised THEN i2
            ELSE LET st3 == [i2.stk EXCEPT ![lv].remaining = c.pixels_n] IN
                 Ret(st3, 0, << >>, ~(get_remaining(st3, lv - 1) >= c.pixels_n))

\* VerticalCropStream(instream, skip, height) over the stream st: the stream with
\* the new crop on top, or raised (and then no crop).
VCrop_setup(st, skip, height, oob) ==
    LET ins == st[Len(st)]
        width == ins.width
    IN IF skip < 0 \/ skip + height > ins.height THEN Ret(st, 0, << >>, TRUE)
       ELSE LET pixels_n == height * width
                i == Stream_skip(st, Len(st), skip * width, oob)
                obj == [kind |-> "vcrop", width |-> width, height |-> height,
                        skip_lines |-> skip, pixels_n |-> pixels_n,
                        skip |-> skip * width, remaining |-> pixels_n]
            IN IF i.raised THEN i
               ELSE IF ~(get_remaining(i.stk, Len(st)) >= pixels_n)
                    THEN Ret(i.stk, 0, << >>, TRUE)
                    ELSE Ret(Append(i.stk, obj), 0, << >>, FALSE)

\* The loop of HorizontalCropStream.skip_pixels without the skip between rows.
RECURSIVE HCrop_skip_loop_norowskip(_, _, _)
HCrop_skip_loop_norowskip(l, WIDTH, SKIP) ==
    IF ~(l.n > 0) THEN l
    ELSE IF l.n >= l.rem_in_l
         THEN HCrop_skip_loop_norowskip([l EXCEPT !.skip_total = @ + l.rem_in_l,
                                                  !.n = @ - l.rem_in_l,
                                                  !.remaining = @ - l.rem_in_l,
                                                  !.rem_in_l = WIDTH], WIDTH, SKIP)
         ELSE HCrop_skip_loop_norowskip([l EXCEPT !.skip_total = @ + l.n,
                                                  !.rem_in_l = @ - l.n,
                                                  !.remaining = @ - l.n,
                                                  !.n = 0], WIDTH, SKIP)

\* The loop of HorizontalCropStream.skip_pixels, on its locals.
RECURSIVE HCrop_skip_loop(_, _, _)
HCrop_skip_loop(l, WIDTH, SKIP) ==
    IF ~(l.n > 0) THEN l
    ELSE IF l.n >= l.rem_in_l
         THEN HCrop_skip_loop([l EXCEPT !.skip_total = @ + l.rem_in_l + SKIP,
                                        !.n = @ - l.rem_in_l,
                                        !.remaining = @ - l.rem_in_l,
                                        !.rem_in_l = WIDTH], WIDTH, SKIP)
         ELSE HCrop_skip_loop([l EXCEPT !.skip_total = @ + l.n,
                                        !.rem_in_l = @ - l.n,
                                        !.remaining = @ - l.n,
                                        !.n = 0], WIDTH, SKIP)

\* HorizontalCropStream.skip_pixels of the crop at level lv.
HCrop_skip(st, lv, n, oob) ==
    LET c == st[lv]
        n1 == Clamp(n, c.remaining)
    IN IF n1 <= 0 THEN Ret(st, 0, << >>, FALSE)
       ELSE LET l == HCrop_skip_loop([n |-> n1, rem_in_l |-> c.rem_in_l,
                                      remaining |-> c.remaining, skip_total |-> 0],
                                     c.width, c.skip)
                i == Stream_skip(st, lv - 1, l.skip_total, oob)
            IN IF i.raised THEN i
               ELSE Ret([i.stk EXCEPT ![lv].remaining = l.remaining,
                                      ![lv].rem_in_l = l.rem_in_l], 0, << >>, FALSE)

\* The loop of HorizontalCropStream.read_pixels: l holds its locals, the objects
\* below the crop as its calls leave them, and the buffer.
RECURSIVE HCrop_read_loop(_, _, _, _, _)
HCrop_read_loop(l, lv, WIDTH, SKIP, oob) ==
    IF ~(l.n > 0) \/ l.raised THEN l
    ELSE IF l.n >= l.rem_in_l
         THEN LET i == Stream_read(l.stk, lv - 1, l.rem_in_l, oob)
                  j == IF i.raised THEN i ELSE Stream_skip(i.stk, lv - 1, SKIP, oob)
              IN HCrop_read_loop([l EXCEPT !.stk = j.stk,
                                           !.raised = i.raised \/ j.raised,
                                           !.out = @ \o i.out,
                                           !.read_bytes = @ + i.r,
                                           !.n = @ - l.rem_in_l,
                                           !.remaining = @ - l.rem_in_l,
                                           !.rem_in_l = WIDTH], lv, WIDTH, SKIP, oob)
         ELSE LET i == Stream_read(l.stk, lv - 1, l.n, oob) IN
              HCrop_read_loop([l EXCEPT !.stk = i.stk,
                                        !.raised = i.raised,
                                        !.out = @ \o i.out,
                                        !.read_bytes = @ + i.r,
                                        !.rem_in_l = @ - l.n,
                                        !.remaining = @ - l.n,
                                        !.n = 0], lv, WIDTH, SKIP, oob)

\* HorizontalCropStream.read_pixels.
HCrop_read(st, lv, n, oob) ==
    LET c == st[lv]
        n1 == Clamp(n, c.remaining)
    IN IF n1 <= 0 THEN Ret(st, 0, << >>, FALSE)
       ELSE LET l == HCrop_read_loop([n |-> n1, rem_in_l |-> c.rem_in_l,
                                      remaining |-> c.remaining, read_bytes |-> 0,
                                      stk |-> st, out |-> << >>, raised |-> FALSE],
                                     lv, c.width, c.skip, oob)
            IN IF l.raised THEN Ret(l.stk, 0, l.out, TRUE)
               ELSE Ret([l.stk EXCEPT ![lv].remaining = l.remaining,
                                      ![lv].rem_in_l = l.rem_in_l],
                        l.read_bytes, l.out, FALSE)

\* HorizontalCropStream.reset.
HCrop_reset(st, lv, oob) ==
    LET c == st[lv]
        i1 == Stream_reset(st, lv - 1, oob)
    IN IF i1.raised THEN i1
       ELSE LET st2 == [i1.stk EXCEPT ![lv].remaining = c.pixels_n,
                                      ![lv].rem_in_l = c.width]
            IN IF ~(get_remaining(st2, lv - 1) >= c.instream_required)
               THEN Ret(st2, 0, << >>, TRUE)
               ELSE Stream_skip(st2, lv - 1, c.skip_at_start, oob)

\* HorizontalCropStream(instream, skip, width) over the stream st.
HCrop_setup(st, skip, width, oob) ==
    LET ins == st[Len(st)]
        height == ins.height
    IN IF skip < 0 \/ skip + width > ins.width THEN Ret(st, 0, << >>, TRUE)
       ELSE LET pixels_n == height * width
                between == ins.width - width
                obj == [kind |-> "hcrop", width |-> width, height |-> height,
                        pixels_n |-> pixels_n, skip_at_start |-> skip,
                        skip |-> between,
                        instream_required |-> pixels_n + height * between,
                        remaining |-> pixels_n, rem_in_l |-> width]
            IN IF ~(get_remaining(st, Len(st)) >= obj.instream_required)
               THEN Ret(st, 0, << >>, TRUE)
               ELSE LET i == Stream_skip(st, Len(st), skip, oob) IN
                    IF i.raised THEN i
                    ELSE Ret(Append(i.stk, obj), 0, << >>, FALSE)

\* skip_pixels(n) on the stream at level lv, by the class of the object.
Stream_skip(st, lv, n, oob) ==
    CASE st[lv].kind = "dummy" ->
            Ret([st EXCEPT ![lv] = Dummy_skip(@, n)], 0, << >>, FALSE)
      [] st[lv].kind = "mono" ->
            LET m == Mono_skip(st[lv], n, oob) IN
            Ret([st EXCEPT ![lv] = m.s], 0, << >>, m.raised)
      [] st[lv].kind = "vcrop" -> VCrop_skip(st, lv, n, oob)
      [] st[lv].kind = "hcrop" -> HCrop_skip(st, lv, n, oob)

\* read_pixels(buf, n, offset) on the stream at level lv.
Stream_read(st, lv, n, oob) ==
    CASE st[lv].kind = "dummy" ->
            LET d == Dummy_read(st[lv], n) IN
            Ret([st EXCEPT ![lv] = d.s], d.r, d.out, FALSE)
      [] st[lv].kind = "mono" ->
            LET m == Mono_read(st[lv], n, oob) IN
            Ret([st EXCEPT ![lv] = m.s], m.r, m.out, m.raised)
      [] st[lv].kind = "vcrop" -> VCrop_read(st, lv, n, oob)
      [] st[lv].kind = "hcrop" -> HCrop_read(st, lv, n, oob)

\* reset() on the stream at level lv.
Stream_reset(st, lv, oob) ==
    CASE st[lv].kind = "dummy" ->
            Ret([st EXCEPT ![lv] = Dummy_reset(@)], 0, << >>, FALSE)
      [] st[lv].kind = "mono" ->
            Ret([st EXCEPT ![lv] = Mono_reset(@)], 0, << >>, FALSE)
      [] st[lv].kind = "vcrop" -> VCrop_reset(st, lv, oob)
      [] st[lv].kind = "hcrop" -> HCrop_reset(st, lv, oob)

----------------------------------------------------------------------------
(* SpecStream: a program constructs a DummyImageStream or a                *)
(* MonoImageStream, wraps it in crops while it is fresh, and then calls    *)
(* skip_pixels, read_pixels and reset on the outermost stream.             *)

\* Largest pixel count a call asks for; one more stands for a request beyond
\* everything that remains.
MaxN == 2

\* Largest skip given to a crop; crop sizes go one further.
MaxCrop == 1

\* Most calls of reset() on one stream.
MaxResets == 1

\* The streams a crop is put on: an image, or a crop of an image.
CropLevels == {1, 2}

\* Width and height of the images.
DummyDims == {<<3, 2>>}
MonoDims == {<<3, 3>>, <<8, 1>>, <<9, 2>>}

\* First bytes of the packed data.
ByteVals == {1, 5}

\* Packed data of height * ceil(width / 8) bytes, counting up from first.
PackedData(width, height, first) ==
    [i \in 1 .. height * ((width + 7) \div 8) |-> (first + i - 1) % 256]

\* What a load beyond the data may do.
OobChoices == {[raise |-> TRUE, byte |-> 0], [raise |-> FALSE, byte |-> 255]}

Top == Len(stk)

Last(op, res) == [op |-> op, raised |-> res.raised]

\* The count a call passes for the choice k.
Request(k) == IF k > MaxN THEN get_remaining(stk, Top) + 1 ELSE k

\* min(max(n, 0), remaining).
Available(n, remaining) == Min(Max(n, 0), remaining)

Fresh == s_last.op \in {"new", "wrap"}

InitStream ==
    /\ \/ \E d \in DummyDims : stk = <<Dummy_init(d[1], d[2])>>
       \/ \E d \in MonoDims, b \in ByteVals :
             stk = <<Mono_setup(PackedData(d[1], d[2], b), d[1], d[2])>>
    /\ s_last = [op |-> "new", raised |-> FALSE]
    /\ s_init_rem = get_remaining(stk, 1)
    /\ s_total = 0 /\ s_resets = 0
    /\ ScreenUnused /\ BuildUnused /\ DrawUnused

Wrapped(res) ==
    /\ stk' = res.stk
    /\ s_last' = Last("wrap", res)
    /\ s_init_rem' = get_remaining(res.stk, Len(res.stk))
    /\ UNCHANGED <<s_total, s_resets, scrVars, bldVars, drwVars>>

\* VerticalCropStream(stream, skip, height)
NewVerticalCrop ==
    /\ Fresh /\ Top \in CropLevels
    /\ \E skip \in -1 .. MaxCrop, height \in 0 .. MaxCrop + 1, oob \in OobChoices :
          Wrapped(VCrop_setup(stk, skip, height, oob))

\* HorizontalCropStream(stream, skip, width)
NewHorizontalCrop ==
    /\ Fresh /\ Top \in CropLevels
    /\ \E skip \in -1 .. MaxCrop, width \in 0 .. MaxCrop + 1, oob \in OobChoices :
          Wrapped(HCrop_setup(stk, skip, width, oob))

\* stream.skip_pixels(n)
SkipPixels ==
    \E k \in -1 .. MaxN + 1, oob \in OobChoices :
       LET n == Request(k)
           res == Stream_skip(stk, Top, n, oob)
       IN /\ stk' = res.stk
          /\ s_last' = Last("skip", res)
          /\ s_total' = IF s_resets > 0 THEN 0
                        ELSE s_total + Available(n, get_remaining(stk, Top))
          /\ UNCHANGED <<s_init_rem, s_resets, scrVars, bldVars, drwVars>>

\* stream.read_pixels(buf, n, 0)
ReadPixels ==
    \E k \in -1 .. MaxN + 1, oob \in OobChoices :
       LET n == Request(k)
           res == Stream_read(stk, Top, n, oob)
       IN /\ stk' = res.stk
          /\ s_last' = Last("read", res)
          /\ s_total' = IF s_resets > 0 THEN 0 ELSE s_total + res.r
          /\ UNCHANGED <<s_init_rem, s_resets, scrVars, bldVars, drwVars>>

\* stream.reset()
Reset ==
    \E oob \in OobChoices :
       LET res == Stream_reset(stk, Top, oob) IN
       /\ s_resets < MaxResets
       /\ stk' = res.stk
       /\ s_last' = Last("reset", res)
       /\ s_resets' = s_resets + 1
       /\ s_total' = 0
       /\ UNCHANGED <<s_init_rem, scrVars, bldVars, drwVars>>

NextStream ==
    \/ NewVerticalCrop
    \/ NewHorizontalCrop
    \/ SkipPixels
    \/ ReadPixels
    \/ Reset

SpecStream == InitStream /\ [][NextStream]_vars

(* Claims about the streams. *)

\* The pixels a stream delivers when all n of them are read in one call.
ReadAll(st, n, oob) == Stream_read(st, Len(st), n, oob)

IsMono == Top = 1 /\ stk[1].kind = "mono"

\* C3: when a MonoImageStream has been read to its end and reset() is called,
\* get_remaining() is width*height again and reading all pixels delivers the
\* sequence the freshly constructed stream delivers.
C3_MonoResetRoundTrip ==
    [][(/\ IsMono /\ s_resets = 0
        /\ s_last.op = "read" /\ get_remaining(stk, 1) = 0
        /\ s_last'.op = "reset")
       => LET m == stk[1]
              fresh == <<Mono_setup(m.raw_data, m.width, m.height)>>
          IN /\ get_remaining(stk', 1) = m.width * m.height
             /\ \A oob \in OobChoices :
                   LET again == ReadAll(stk', m.n_pixels, oob) IN
                   /\ ~again.raised
                   /\ again.out = ReadAll(fresh, m.n_pixels, oob).out]_vars

\* C9: on a stream of any of the four classes, in whatever state the calls so
\* far left it, read_pixels(buf, n, 0) returns min(max(n, 0), remaining) and
\* lowers get_remaining() by that amount, skip_pixels(n) lowers get_remaining()
\* by that amount, and get_remaining() is not negative.
C9_ReadSkipExact ==
    stk # << >> =>
       /\ get_remaining(stk, Top) >= 0
       /\ \A k \in -1 .. MaxN + 1, oob \in OobChoices :
             LET n == Request(k)
                 remaining == get_remaining(stk, Top)
                 rd == Stream_read(stk, Top, n, oob)
                 sk == Stream_skip(stk, Top, n, oob)
             IN /\ ~rd.raised
                /\ rd.r = Available(n, remaining)
                /\ get_remaining(rd.stk, Top) = remaining - Available(n, remaining)
                /\ ~sk.raised
                /\ get_remaining(sk.stk, Top) = remaining - Available(n, remaining)

HasKind(kind) == \E lv \in 1 .. Top : stk[lv].kind = kind

\* C10: over a composition of crops on a fresh image that was never reset, when
\* get_remaining() has come down to 0 the pixels skipped plus the pixels returned
\* by reads are get_remaining() right after construction.
C10_TraversalCountsAll ==
    (stk # << >> /\ s_resets = 0 /\ get_remaining(stk, Top) = 0)
       => s_total = s_init_rem

C10_Witness ==
    /\ HasKind("vcrop") /\ HasKind("hcrop") /\ HasKind("mono")
    /\ s_resets = 0 /\ s_last.op = "read"
    /\ get_remaining(stk, Top) = 0
    /\ s_init_rem > 1 /\ s_total = s_init_rem

\* The stream st[1 .. lv] as its constructors build it on a fresh image.
RECURSIVE Rebuild(_, _)
Rebuild(st, lv) ==
    LET noload == [raise |-> FALSE, byte |-> 0] IN
    IF lv = 1
    THEN IF st[1].kind = "dummy"
         THEN <<Dummy_init(st[1].width, st[1].height)>>
         ELSE <<Mono_setup(st[1].raw_data, st[1].width, st[1].height)>>
    ELSE IF st[lv].kind = "vcrop"
         THEN VCrop_setup(Rebuild(st, lv - 1), st[lv].skip_lines, st[lv].height, noload).stk
         ELSE HCrop_setup(Rebuild(st, lv - 1), st[lv].skip_at_start, st[lv].width, noload).stk

IsCrop == Top > 1

\* C11: reset() on a crop, after whatever skip_pixels and read_pixels calls, does
\* not raise, makes get_remaining() what it was right after construction, and
\* the pixels then read are those read right after construction.
C11_CropResetRestores ==
    [][(IsCrop /\ s_last'.op = "reset")
       => /\ ~s_last'.raised
          /\ get_remaining(stk', Top) = s_init_rem
          /\ \A oob \in OobChoices :
                LET again == ReadAll(stk', s_init_rem, oob) IN
                /\ ~again.raised
                /\ again.out = ReadAll(Rebuild(stk, Top), s_init_rem, oob).out]_vars

\* C12: whatever was called on a crop built on a fresh source, the crop's
\* get_remaining() is at most the get_remaining() of the stream it wraps.
C12_CropWithinSource ==
    \A lv \in 2 .. Top : get_remaining(stk, lv) <= get_remaining(stk, lv - 1)

\* The pixels of the stream st[1 .. lv] built on a fresh image, as the claim
\* describes them: all pixels of the image for lv = 1, rows
\* [skip, skip + height) of the wrapped stream for a vertical crop, columns
\* [skip, skip + width) of every row of it for a horizontal crop.
RECURSIVE Window(_, _)
Window(st, lv) ==
    IF lv = 1
    THEN ReadAll(Rebuild(st, 1), st[1].width * st[1].height,
                 [raise |-> FALSE, byte |-> 0]).out
    ELSE LET src == Window(st, lv - 1)
             W == st[lv - 1].width
             c == st[lv]
         IN IF c.kind = "vcrop"
            THEN SubSeq(src, c.skip_lines * W + 1, (c.skip_lines + c.height) * W)
            ELSE [i \in 1 .. c.height * c.width |->
                     src[((i - 1) \div c.width) * W + c.skip_at_start
                         + ((i - 1) % c.width) + 1]]

\* C13: on a crop built on a fresh source and never reset, after any skip_pixels
\* and read_pixels calls, every read_pixels delivers the next pixels of the
\* crop's window of the source, in row-major order.
C13_CropDeliversWindow ==
    (IsCrop /\ s_resets = 0) =>
       \A k \in -1 .. MaxN + 1, oob \in OobChoices :
          LET rd == Stream_read(stk, Top, Request(k), oob)
              done == s_init_rem - get_remaining(stk, Top)
          IN /\ ~rd.raised
             /\ rd.out = SubSeq(Window(stk, Top), done + 1, done + rd.r)

\* C13's case: a horizontal crop narrower than its source, part of it skipped
\* and part of it read, with pixels left in more than one row.
C13_Witness ==
    /\ IsCrop /\ s_resets = 0
    /\ stk[Top].kind = "hcrop" /\ stk[Top].width < stk[Top - 1].width
    /\ s_last.op = "read"
    /\ get_remaining(stk, Top) > stk[Top].width
    /\ get_remaining(stk, Top) < s_init_rem
    /\ stk[Top].rem_in_l < stk[Top].width

\* C14: on a fresh stream, a VerticalCropStream constructed with skip + height
\* beyond the source height (a HorizontalCropStream with skip + width beyond the
\* source width) is built, and its height (width) is the source extent minus skip.
C14_CropTruncates ==
    (stk # << >> /\ Fresh) =>
       \A skip \in 0 .. MaxCrop, size \in 0 .. MaxCrop + 1 :
          LET noload == [raise |-> FALSE, byte |-> 0]
              v == VCrop_setup(stk, skip, size, noload)
              h == HCrop_setup(stk, skip, size, noload)
          IN /\ (skip <= stk[Top].height /\ skip + size > stk[Top].height)
                   => /\ ~v.raised
                      /\ Len(v.stk) = Top + 1
                      /\ v.stk[Top + 1].height = stk[Top].height - skip
             /\ (skip <= stk[Top].width /\ skip + size > stk[Top].width)
                   => /\ ~h.raised
                      /\ Len(h.stk) = Top + 1
                      /\ h.stk[Top + 1].width = stk[Top].width - skip

\* The colour the claim gives pixel i (from 0) of a MonoImageStream: palette[b]
\* with b bit (c mod 8) of byte r * ceil(width / 8) + (c div 8), r = i div width
\* and c = i mod width.
PackedPixel(m, i) ==
    LET r == i \div m.width
        c == i % m.width
        byte == m.raw_data[r * ((m.width + 7) \div 8) + (c \div 8) + 1]
    IN m.palette[Bit(byte, c % 8) + 1]

\* C15: on a MonoImageStream that was set up and never reset, after any
\* skip_pixels and read_pixels calls, a read_pixels delivers the colours of the
\* next pixels of the packed image.
C15_MonoDecodesPacked ==
    (IsMono /\ s_resets = 0) =>
       \A k \in -1 .. MaxN + 1, oob \in OobChoices :
          LET m == stk[1]
              rd == Mono_read(m, Request(k), oob)
              done == m.n_pixels - get_remaining(stk, 1)
          IN /\ ~rd.raised
             /\ rd.out = [j \in 1 .. rd.r |-> PackedPixel(m, done + j - 1)]

\* The bit of the component id cid in the update array.
DirtyBit(cid) == Bit(update_array[1 + cid \div 16], cid % 16)

\* C29: outside a running draw pass, from the construction of the Screen on, a
\* registered component whose dirty flag is set has the bit of its id set in the
\* update array.
C29_DirtyImpliesBit ==
    pc = "idle" =>
       \A i \in 1 .. Len(components) :
          components[i].dirty => DirtyBit(components[i].cid) = 1

----------------------------------------------------------------------------
(* SpecNotify: one call of notify_component_update with any id a Screen can *)
(* hold, on an update array in which other ids may already be recorded.     *)

\* Ids recorded in the update array before the call: the first and last bit of
\* the first block, the first bit of the second, and the last id.
SeedIds == {0, 15, 16, 127}

\* All ids notify_component_update is called with.
AllIds == 0 .. MAX_COMPONENTS

\* The update array after notify_component_update for every id in S.
RECURSIVE Notified(_)
Notified(S) ==
    IF S = {} THEN ZeroWords(UPDATE_WORDS)
    ELSE LET id == CHOOSE x \in S : TRUE IN
         notify_component_update(Notified(S \ {id}), id)

InitNotify ==
    /\ update_array \in {Notified(S) : S \in SUBSET SeedIds}
    /\ last_op = << >>
    /\ components = << >> /\ window_info = << >>
    /\ draw_log = << >> /\ notify_log = << >> /\ pending = FALSE /\ notified = {}
    /\ tainted = FALSE /\ pc = "unused" /\ n2 = 0 /\ spin = 0
    /\ BuildUnused /\ StreamUnused /\ DrawUnused

\* screen.notify_component_update(cid)
Notify ==
    /\ last_op = << >>
    /\ \E cid \in AllIds :
          /\ update_array' = notify_component_update(update_array, cid)
          /\ last_op' = <<"notify_component_update", cid>>
    /\ UNCHANGED <<components, window_info, draw_log, notify_log, pending, notified,
                   tainted, pc, n2, spin>>
    /\ UNCHANGED <<bldVars, strVars, drwVars>>

NextNotify == Notify

SpecNotify == InitNotify /\ [][NextNotify]_vars

\* C26: notify_component_update(id), 0 <= id <= 127, writes inside the nine
\* words of the update array, sets bit id mod 16 of word 1 + id div 16 and bit
\* 1 + id div 16 of word 0, changes no other bit, keeps every word below 2^16,
\* and a second call with the same id changes nothing.
C26_NotifySetsTwoBits ==
    [][LET id == last_op'[2]
           byti == 1 + id \div 16
           biti == id % 16
       IN /\ byti \in DOMAIN update_array
          /\ Pow2(byti) < 65536 /\ Pow2(biti) < 65536
          /\ DOMAIN update_array' = DOMAIN update_array
          /\ \A w \in DOMAIN update_array :
                /\ update_array'[w] < 65536
                /\ \A b \in 0 .. 15 :
                      Bit(update_array'[w], b) =
                         IF (w = byti /\ b = biti) \/ (w = 0 /\ b = byti)
                         THEN 1
                         ELSE Bit(update_array[w], b)
          /\ notify_component_update(update_array', id) = update_array']_vars

\* C26's case: the last id has been notified in an array that held other ids.
C26_Witness ==
    /\ last_op = <<"notify_component_update", 127>>
    /\ Bit(update_array[8], 15) = 1 /\ Bit(update_array[0], 8) = 1
    /\ Bit(update_array[1], 0) = 1

\* C27: from every state a MonoImageStream reaches and for every count n,
\* skip_pixels(n) and read_pixels(buf, n, offset) leave the same current byte,
\* byte index, bits left in the byte, pixels left in the row and remaining
\* count, and raise in the same cases.
C27_SkipStepsLikeRead ==
    stk[1].kind = "mono" =>
       \A n \in -1 .. get_remaining(stk, 1) + 1, oob \in OobChoices :
          LET skipped == Mono_skip(stk[1], n, oob)
              read == Mono_read(stk[1], n, oob)
          IN /\ skipped.s = read.s
             /\ skipped.raised = read.raised

\* C27's case: a MonoImageStream that has been read or skipped into, from which
\* a read delivers pixels and moves on to another byte.
C27_Witness ==
    /\ stk[1].kind = "mono" /\ s_total > 0
    /\ \E n \in 1 .. get_remaining(stk, 1), oob \in OobChoices :
          LET read == Mono_read(stk[1], n, oob) IN
          /\ ~read.raised /\ read.r = n
          /\ read.s.es[MIS_INDEX] # stk[1].es[MIS_INDEX]

----------------------------------------------------------------------------
(* SpecCallback: a Screen whose components' draw callbacks may call         *)
(* set_var on a component, and a program that notifies and draws lazily.    *)

\* The callbacks of n components: for each list position, the position of the
\* component its callback touches, or 0.
Callbacks(n) == [1 .. n -> 0 .. n]

\* n components the constructor accepts, with the callbacks cb.
CallbackComponents(n, cb) ==
    [i \in 1 .. n |-> [NewComponents(n)[i] EXCEPT !.draw = cb[i]]]

\* The numbers of components of the Screens of SpecCallback.
CallbackCounts == {2, 3}

InitCallback ==
    /\ \E n \in CallbackCounts : \E cb \in Callbacks(n) :
          LET s == Screen_init("self", ScreenDisplay, CallbackComponents(n, cb)) IN
          /\ ~s.raised
          /\ components = s.components
          /\ update_array = s.update_array
    /\ window_info = set_component_context(0, 0, ScreenDisplay.width, ScreenDisplay.height, 0)
    /\ draw_log = << >>
    /\ notify_log = << >>
    /\ pending = FALSE
    /\ notified = {}
    /\ tainted = FALSE
    /\ last_op = Call("init", 0, "", 0, 0, FALSE)
    /\ pc = "idle"
    /\ n2 = 0
    /\ spin = 0
    /\ BuildUnused
    /\ StreamUnused
    /\ DrawUnused

NextCallback ==
    \/ NotifyComponentUpdate
    \/ DrawLazy

SpecCallback == InitCallback /\ [][NextCallback]_vars

\* C30: when draw_lazy returns, every block word that is not zero has its bit
\* set in the summary word, so a notification made by a draw callback during the
\* pass (set_var on a component that was not dirty) is seen by the next pass.
C30_BlockHasSummaryBit ==
    (last_op.op = "draw_lazy" /\ ~last_op.raised) =>
        \A w \in 1 .. UPDATE_WORDS - 1 :
            update_array[w] # 0 => Bit(update_array[0], w) = 1

\* C32: for a MonoImageStream over data of exactly height * ceil(width / 8)
\* bytes, after any sequence of skip_pixels, read_pixels and reset the index of
\* the source byte is within 0 .. height * ceil(width / 8) - 1 and
\* get_remaining() is within 0 .. width * height: no byte past the end of the
\* data is loaded (the index only grows during a call).
C32_MonoStaysInsideData ==
    (stk # << >> /\ stk[1].kind = "mono") =>
        LET m == stk[1] IN
        /\ Len(m.raw_data) = m.height * ((m.width + 7) \div 8)
        /\ m.es[MIS_INDEX] \in 0 .. Len(m.raw_data) - 1
        /\ m.es[SX_REMAINING] \in 0 .. m.width * m.height

----------------------------------------------------------------------------
(* SpecBuild: a program constructs the components of a plan, one after the *)
(* other, and then a Screen from the list of them.  An exception ends it.  *)

\* Positions and sizes of a plan of one component: aligned and unaligned values,
\* negative ones, zero, and one beyond the 24 bits of _TILE_SIZE_MOD_MASK.
OneXY == {0 - TILE_SIZE, 0 - 1, 0, 1, TILE_SIZE - 1, TILE_SIZE, TILE_SIZE + 1,
          2 * TILE_SIZE, TILE_SIZE_MOD_MASK + TILE_SIZE}
OneWH == {0 - TILE_SIZE, 0, 1, TILE_SIZE - 1, TILE_SIZE, TILE_SIZE + 1,
          2 * TILE_SIZE, TILE_SIZE_MOD_MASK + TILE_SIZE}

\* Positions and sizes of a plan of two components.
TwoXY == {0, 1, TILE_SIZE}
TwoWH == {1, TILE_SIZE, 2 * TILE_SIZE}

Displays == {DisplaySpec(2 * TILE_SIZE, 2 * TILE_SIZE),
             DisplaySpec(3 * TILE_SIZE, 2 * TILE_SIZE),
             DisplaySpec(TILE_SIZE, 2 * TILE_SIZE)}

Args(XY, WH) == [x : XY, y : XY, width : WH, height : WH]

\* A plan of n components that Component.__init__ accepts: with the mask
\* _TILE_SIZE_MOD_MASK as it is these are positions and sizes below the tile
\* size, and such a component occupies no tile of the overlap map.
ManyPlan(n) ==
    [display |-> DisplaySpec(2 * TILE_SIZE, 2 * TILE_SIZE),
     args |-> [i \in 1 .. n |-> [x |-> (i - 1) % TILE_SIZE, y |-> 0,
                                 width |-> 1 + (i % (TILE_SIZE - 1)), height |-> 1]]]

Plans ==
    [display : Displays, args : {<<a>> : a \in Args(OneXY, OneWH)}]
    \cup [display : Displays,
          args : {<<a, b>> : a \in Args(TwoXY, TwoWH), b \in Args(TwoXY, TwoWH)}]
    \cup {ManyPlan(MAX_COMPONENTS), ManyPlan(MAX_COMPONENTS + 1)}

InitBuild ==
    /\ b_plan \in Plans
    /\ b_comps = << >>
    /\ b_screen = << >>
    /\ b_out = "building"
    /\ ScreenUnused
    /\ StreamUnused
    /\ DrawUnused

\* Component(x, y, width, height, draw) for the next component of the plan.
NewComponent ==
    /\ b_out = "building"
    /\ Len(b_comps) < Len(b_plan.args)
    /\ LET a == b_plan.args[Len(b_comps) + 1]
           r == Component_init(a.x, a.y, a.width, a.height)
       IN IF r.raised
          THEN b_out' = "raised_component" /\ UNCHANGED b_comps
          ELSE b_comps' = Append(b_comps, r.obj) /\ UNCHANGED b_out
    /\ UNCHANGED <<b_plan, b_screen>>
    /\ UNCHANGED <<scrVars, strVars, drwVars>>

\* Screen(bgcolor, display_spec, components) for the list of the constructed
\* components.  The components are objects: what the constructor assigned to
\* them stays assigned when it raises.
NewScreen ==
    /\ b_out = "building"
    /\ Len(b_comps) = Len(b_plan.args)
    /\ LET r == Screen_init("screen1", b_plan.display, b_comps) IN
       /\ b_screen' = r
       /\ b_comps' = r.components
       /\ b_out' = IF r.raised THEN "raised_screen" ELSE "ok"
    /\ UNCHANGED b_plan
    /\ UNCHANGED <<scrVars, strVars, drwVars>>

Reverse(s) == [i \in 1 .. Len(s) |-> s[Len(s) + 1 - i]]

\* A second Screen(bgcolor, display_spec, components) that lists the components
\* of the first one, in the same order or in reverse.  b_comps keeps the
\* components at their positions in the plan; b_out stays the outcome of the
\* first construction.
NewScreenAgain ==
    /\ b_out \in {"ok", "raised_screen"}
    /\ b_screen.self = "screen1"
    /\ \E reversed \in BOOLEAN :
          LET listed == IF reversed THEN Reverse(b_comps) ELSE b_comps
              r == Screen_init("screen2", b_plan.display, listed)
          IN /\ b_screen' = r
             /\ b_comps' = IF reversed THEN Reverse(r.components) ELSE r.components
    /\ UNCHANGED <<b_plan, b_out>>
    /\ UNCHANGED <<scrVars, strVars, drwVars>>

NextBuild ==
    \/ NewComponent
    \/ NewScreen
    \/ NewScreenAgain

SpecBuild == InitBuild /\ [][NextBuild]_vars

----------------------------------------------------------------------------
(* Claims about construction.                                              *)

\* The arguments the specification allows: position a non-negative multiple of
\* the tile size, size a positive multiple of it.
TileAligned(a) ==
    /\ a.x >= 0 /\ a.x % TILE_SIZE = 0
    /\ a.y >= 0 /\ a.y % TILE_SIZE = 0
    /\ a.width > 0 /\ a.width % TILE_SIZE = 0
    /\ a.height > 0 /\ a.height % TILE_SIZE = 0

\* The tiles a tile-aligned rectangle covers.
TilesOf(a) ==
    {<<tx, ty>> : tx \in (a.x \div TILE_SIZE) .. ((a.x + a.width) \div TILE_SIZE - 1),
                  ty \in (a.y \div TILE_SIZE) .. ((a.y + a.height) \div TILE_SIZE - 1)}

InsideDisplay(a, d) ==
    a.x + a.width <= d.width /\ a.y + a.height <= d.height

\* Two rectangles that share no tile and touch along an edge.
EdgeAdjacent(a, b) ==
    /\ TilesOf(a) \cap TilesOf(b) = {}
    /\ \/ a.x + a.width = b.x \/ b.x + b.width = a.x
       \/ a.y + a.height = b.y \/ b.y + b.height = a.y

\* C7: building two tile-aligned components and a Screen from them raises when the
\* rectangles share a tile, and succeeds when they lie inside the display and are
\* only edge-adjacent.
C7_OverlapRaisesAdjacentBuilds ==
    (/\ b_out # "building"
     /\ Len(b_plan.args) = 2
     /\ TileAligned(b_plan.args[1])
     /\ TileAligned(b_plan.args[2]))
    => LET a == b_plan.args[1]
           b == b_plan.args[2]
       IN /\ (TilesOf(a) \cap TilesOf(b) # {}) => b_out # "ok"
          /\ (/\ InsideDisplay(a, b_plan.display)
              /\ InsideDisplay(b, b_plan.display)
              /\ EdgeAdjacent(a, b)) => b_out = "ok"

\* C8: Component construction succeeds exactly when x and y are non-negative
\* multiples of 16 and width and height are positive multiples of 16.
C8_ComponentAcceptsExactlyAligned ==
    LET a == b_plan.args[1] IN
    /\ (Len(b_comps) = 0 /\ b_out = "raised_component") => ~TileAligned(a)
    /\ Len(b_comps) >= 1 => TileAligned(a)

\* C23: a component that a Screen construction has registered keeps its
\* back-reference to that Screen and its id under every later Screen
\* construction that lists it.
C23_RegisteredOnce ==
    [][\A i \in 1 .. Len(b_comps) :
          b_comps[i].screen # "dummy" =>
             /\ b_comps'[i].screen = b_comps[i].screen
             /\ b_comps'[i].cid = b_comps[i].cid]_vars

\* C24: after a successful construction Screen(bgcolor, display, <<c_1 .. c_n>>)
\* the Screen's component list is c_1 .. c_n in that order, each c_i with id i
\* and the back-reference to this Screen; the construction raises for more than
\* 127 components and succeeds for 127 components.
C24_SequentialIds ==
    (b_out \in {"ok", "raised_screen"} /\ b_screen.self = "screen1") =>
       /\ b_out = "ok" =>
             /\ Len(b_screen.components) = Len(b_plan.args)
             /\ \A i \in 1 .. Len(b_plan.args) :
                   LET a == b_plan.args[i]
                       c == Component_init(a.x, a.y, a.width, a.height).obj
                   IN b_screen.components[i] = [c EXCEPT !.screen = "screen1", !.cid = i]
             /\ b_comps = b_screen.components
       /\ Len(b_plan.args) > 127 => b_out = "raised_screen"
       /\ b_plan = ManyPlan(127) => b_out = "ok"

\* C24's case: the Screen of 127 components has been constructed.
C24_Witness ==
    /\ b_out = "ok" /\ b_screen.self = "screen1"
    /\ Len(b_screen.components) = 127
    /\ b_screen.components[127].cid = 127

\* Two rectangles that share no pixel.
Disjoint(a, b) ==
    \/ a.x + a.width <= b.x \/ b.x + b.width <= a.x
    \/ a.y + a.height <= b.y \/ b.y + b.height <= a.y

\* C33: on a display of any width and height, Screen construction raises "out of
\* screen bounds" only for a list with a component whose rectangle extends past
\* the display width in x or the display height in y, raises whenever the list
\* has such a component, and accepts every list of at most 127 components that
\* lie inside the display and do not overlap.
C33_BoundsAreTheDisplay ==
    (b_out \in {"ok", "raised_screen"} /\ b_screen.self = "screen1") =>
       LET d == b_plan.display
           n == Len(b_plan.args)
           outside == {i \in 1 .. n : ~InsideDisplay(b_plan.args[i], d)}
       IN /\ (b_out = "raised_screen" /\ b_screen.why = "bounds") => outside # {}
          /\ outside # {} => b_out = "raised_screen"
          /\ (/\ outside = {}
              /\ n <= MAX_COMPONENTS
              /\ \A i \in 1 .. n : \A j \in (i + 1) .. n :
                    Disjoint(b_plan.args[i], b_plan.args[j]))
             => b_out = "ok"

----------------------------------------------------------------------------
(* WatchGraphics: drawing through the active window.  A call on the display *)
(* is a record; an operation returns the calls it makes, in order.  The     *)
(* viper integers are 32 bits wide; the values here stay far below that.    *)

SinkFill(color, x, y, width, height) ==
    [fn |-> "wgl_fill", color |-> color, x |-> x, y |-> y,
     width |-> width, height |-> height, image |-> << >>]

\* display.wgl_blit(image, x, y): image is the stream as it is handed over.
SinkBlit(image, x, y) ==
    [fn |-> "wgl_blit", color |-> 0, x |-> x, y |-> y,
     width |-> image[Len(image)].width, height |-> image[Len(image)].height,
     image |-> image]

\* WatchGraphics.fill without the clipping at the right and bottom edges.
fill_open_ended(wi, color, x, y, width, height) ==
    LET ys == y + wi.yshift
        height1 == IF ys < 0 THEN height + ys ELSE height
        y1 == IF ys < 0 THEN 0 ELSE ys
        width1 == IF x < 0 THEN width + x ELSE width
        x1 == IF x < 0 THEN 0 ELSE x
    IN IF width1 <= 0 \/ height1 <= 0 THEN << >>
       ELSE <<SinkFill(color, wi.xpos + x1, wi.ypos + y1, width1, height1)>>

\* WatchGraphics.fill
fill(wi, color, x, y, width, height) ==
    LET ys == y + wi.yshift
        height1 == IF ys < 0 THEN height + ys ELSE height
        y1 == IF ys < 0 THEN 0 ELSE ys
        width1 == IF x < 0 THEN width + x ELSE width
        x1 == IF x < 0 THEN 0 ELSE x
        max_y == y1 + height1 - 1
        max_x == x1 + width1 - 1
        width2 == IF max_x >= wi.width THEN width1 + (wi.width - 1) - max_x ELSE width1
        height2 == IF max_y >= wi.height THEN height1 + (wi.height - 1) - max_y ELSE height1
    IN IF width2 <= 0 \/ height2 <= 0 THEN << >>
       ELSE <<SinkFill(color, wi.xpos + x1, wi.ypos + y1, width2, height2)>>

\* What the display does with the image inside wgl_blit: it reads all of it (a
\* panel) or nothing (DummyDisplay).
Display_blit(image, display_reads, oob) ==
    IF display_reads
    THEN Stream_read(image, Len(image), get_remaining(image, Len(image)), oob)
    ELSE Ret(image, 0, << >>, FALSE)

\* What a drawing call leaves: the calls made on the display, and from the last
\* stream operation res the image with its crops and whether the call raised.
Drawn(calls, res) == [sink |-> calls, image |-> res.stk, raised |-> res.raised]

\* WatchGraphics.blit, last line: image.reset() once the display returned from
\* wgl_blit, whose reading of the image gave d.
blit_reset(call, d, oob) ==
    IF d.raised
    THEN Drawn(<<call>>, d)
    ELSE Drawn(<<call>>, Stream_reset(d.stk, Len(d.stk), oob))

\* WatchGraphics.blit, the call on the display with the cropped image at device
\* coordinates; cropped is the outcome of the last _setup.
blit_send(wi, cropped, x, y, display_reads, oob) ==
    IF cropped.raised
    THEN Drawn(<< >>, cropped)
    ELSE blit_reset(SinkBlit(cropped.stk, wi.xpos + x, wi.ypos + y),
                    Display_blit(cropped.stk, display_reads, oob), oob)

\* blit_crop_cols with the horizontal crop taken from the left edge of the image.
blit_crop_cols_from_left(wi, croppedy, x, y, width, skip_cols, reduce_by_cols, display_reads, oob) ==
    IF croppedy.raised
    THEN Drawn(<< >>, croppedy)
    ELSE IF reduce_by_cols > 0 /\ width - reduce_by_cols <= 0
    THEN Drawn(<< >>, croppedy)
    ELSE blit_send(wi,
                   IF reduce_by_cols > 0
                   THEN HCrop_setup(croppedy.stk, 0, width - reduce_by_cols, oob)
                   ELSE croppedy,
                   IF reduce_by_cols > 0 THEN x + skip_cols ELSE x, y, display_reads, oob)

\* WatchGraphics.blit, "if reduce_by_cols > 0": the horizontal crop around the
\* image as the vertical step left it (croppedy).
blit_crop_cols(wi, croppedy, x, y, width, skip_cols, reduce_by_cols, display_reads, oob) ==
    IF croppedy.raised
    THEN Drawn(<< >>, croppedy)
    ELSE IF reduce_by_cols > 0 /\ width - reduce_by_cols <= 0
    THEN Drawn(<< >>, croppedy)
    ELSE blit_send(wi,
                   IF reduce_by_cols > 0
                   THEN HCrop_setup(croppedy.stk, skip_cols, width - reduce_by_cols, oob)
                   ELSE croppedy,
                   IF reduce_by_cols > 0 THEN x + skip_cols ELSE x, y, display_reads, oob)

\* WatchGraphics.blit: the calls on the display, the image and the crops around
\* it as the call leaves them, and whether it raised.
blit(wi, image, x, y, display_reads, oob) ==
    LET ys == y + wi.yshift
        width == image[Len(image)].width
        height == image[Len(image)].height
        skip_lines == IF ys < 0 THEN 0 - ys ELSE 0
        reduce_by_lines == IF ys + height > wi.height
                           THEN skip_lines + (ys + height) - wi.height
                           ELSE skip_lines
        skip_cols == IF x < 0 THEN 0 - x ELSE 0
        reduce_by_cols == IF x + width > wi.width
                          THEN skip_cols + (x + width) - wi.width
                          ELSE skip_cols
    IN IF reduce_by_lines = 0 /\ reduce_by_cols = 0
       THEN Drawn(<<SinkBlit(image, x, ys)>>, Display_blit(image, display_reads, oob))
       ELSE IF reduce_by_lines > 0 /\ height - reduce_by_lines <= 0
       THEN Drawn(<< >>, Ret(image, 0, << >>, FALSE))
       ELSE blit_crop_cols(wi,
                           IF reduce_by_lines > 0
                           THEN VCrop_setup(image, skip_lines, height - reduce_by_lines, oob)
                           ELSE Ret(image, 0, << >>, FALSE),
                           x, IF reduce_by_lines > 0 THEN ys + skip_lines ELSE ys,
                           width, skip_cols, reduce_by_cols, display_reads, oob)

Abs(a) == IF a < 0 THEN 0 - a ELSE a

\* The stepping loop of draw_line.  c holds what the loop does not change; l
\* holds x0, y0, error, the rectangle being collected and the calls made.
RECURSIVE draw_line_loop(_, _)
draw_line_loop(c, l) ==
    LET rwidth1 == IF l.x0 < 0 THEN c.width + l.x0 ELSE c.width
        rx0 == IF l.x0 < 0 THEN 0 ELSE l.x0
        rheight1 == IF l.y0 < 0 THEN c.width + l.y0 ELSE c.width
        ry0 == IF l.y0 < 0 THEN 0 ELSE l.y0
        max_width == c.wi.width - rx0
        max_height == c.wi.height - ry0
        rwidth == IF rwidth1 > max_width THEN max_width ELSE rwidth1
        rheight == IF rheight1 > max_height THEN max_height ELSE rheight1
        x_offset == rx0 - l.fill_x
        y_offset == ry0 - l.fill_y
        flushed == Append(l.sink, SinkFill(c.color, c.wi.xpos + l.fill_x,
                                           c.wi.ypos + l.fill_y, l.fill_w, l.fill_h))
        l1 == IF rwidth <= 0 \/ rheight <= 0
              THEN IF l.fill_x # -1
                   THEN [l EXCEPT !.sink = flushed, !.fill_x = -1, !.fill_y = -1]
                   ELSE l
              ELSE IF y_offset = 0 /\ x_offset = 0
              THEN [l EXCEPT !.fill_h = IF rheight > @ THEN rheight ELSE @,
                             !.fill_w = IF rwidth > @ THEN rwidth ELSE @]
              ELSE IF y_offset = 0 /\ rheight = l.fill_h
              THEN IF x_offset < 0
                   THEN [l EXCEPT !.fill_x = @ + x_offset, !.fill_w = @ - x_offset]
                   ELSE [l EXCEPT !.fill_w = @ + x_offset]
              ELSE IF x_offset = 0 /\ rwidth = l.fill_w
              THEN IF y_offset < 0
                   THEN [l EXCEPT !.fill_y = @ + y_offset, !.fill_h = @ - y_offset]
                   ELSE [l EXCEPT !.fill_h = @ + y_offset]
              ELSE [l EXCEPT !.sink = IF l.fill_x # -1 THEN flushed ELSE @,
                             !.fill_x = rx0, !.fill_y = ry0,
                             !.fill_w = rwidth, !.fill_h = rheight]
        step_x == l.error >= c.dy
        step_y == l.error <= c.dx
        l2 == IF step_x THEN [l1 EXCEPT !.x0 = @ + c.sx] ELSE l1
        l3 == IF step_y THEN [l2 EXCEPT !.y0 = @ + c.sy] ELSE l2
        error_change == (IF step_x THEN 2 * c.dy ELSE 0) + (IF step_y THEN 2 * c.dx ELSE 0)
    IN IF step_x /\ l.x0 = c.x1 THEN l1
       ELSE IF step_y /\ l2.y0 = c.y1 THEN l2
       ELSE draw_line_loop(c, [l3 EXCEPT !.error = @ + error_change,
                                         !.visited = Append(@, <<l3.x0, l3.y0>>)])

\* draw_line with the thickness offset rounded up instead of down.
draw_line_run_offset_up(wi, color, width, x0, y0, x1, y1) ==
    LET ltoff == width \div 2
        xa == x0 - ltoff
        ya == y0 - ltoff
        xb == x1 - ltoff
        yb == y1 - ltoff
        dx == Abs(xb - xa)
        dy == 0 - Abs(yb - ya)
        mdy == 0 - dy
    IN IF dx = 0 /\ dy = 0
       THEN [sink |-> fill(wi, color, xa, ya, width, width), visited |-> << >>]
       ELSE IF dy = 0
       THEN [sink |-> fill(wi, color, IF xa > xb THEN xb ELSE xa, ya, dx + width, width),
             visited |-> << >>]
       ELSE IF dx = 0
       THEN [sink |-> fill(wi, color, xa, IF ya > yb THEN yb ELSE ya, width, mdy + width),
             visited |-> << >>]
       ELSE LET ys0 == ya + wi.yshift
                ys1 == yb + wi.yshift
                c == [wi |-> wi, color |-> color, width |-> width, x1 |-> xb, y1 |-> ys1,
                      dx |-> dx, dy |-> dy,
                      sx |-> IF xa < xb THEN 1 ELSE -1,
                      sy |-> IF ys0 < ys1 THEN 1 ELSE -1]
                l == draw_line_loop(c, [x0 |-> xa, y0 |-> ys0, error |-> 2 * dx + 2 * dy,
                                        fill_x |-> -1, fill_y |-> -1,
                                        fill_w |-> -1, fill_h |-> -1,
                                        sink |-> << >>, visited |-> <<<<xa, ys0>>>>])
            IN [sink |-> IF l.fill_x # -1
                         THEN Append(l.sink, SinkFill(color, wi.xpos + l.fill_x,
                                                      wi.ypos + l.fill_y, l.fill_w, l.fill_h))
                         ELSE l.sink,
                visited |-> l.visited]

\* draw_line without the wgl_fill of the rectangle still collected when the loop ends.
draw_line_run_unflushed(wi, color, width, x0, y0, x1, y1) ==
    LET ltoff == (width - 1) \div 2
        xa == x0 - ltoff
        ya == y0 - ltoff
        xb == x1 - ltoff
        yb == y1 - ltoff
        dx == Abs(xb - xa)
        dy == 0 - Abs(yb - ya)
        mdy == 0 - dy
    IN IF dx = 0 /\ dy = 0
       THEN [sink |-> fill(wi, color, xa, ya, width, width), visited |-> << >>]
       ELSE IF dy = 0
       THEN [sink |-> fill(wi, color, IF xa > xb THEN xb ELSE xa, ya, dx + width, width),
             visited |-> << >>]
       ELSE IF dx = 0
       THEN [sink |-> fill(wi, color, xa, IF ya > yb THEN yb ELSE ya, width, mdy + width),
             visited |-> << >>]
       ELSE LET ys0 == ya + wi.yshift
                ys1 == yb + wi.yshift
                c == [wi |-> wi, color |-> color, width |-> width, x1 |-> xb, y1 |-> ys1,
                      dx |-> dx, dy |-> dy,
                      sx |-> IF xa < xb THEN 1 ELSE -1,
                      sy |-> IF ys0 < ys1 THEN 1 ELSE -1]
                l == draw_line_loop(c, [x0 |-> xa, y0 |-> ys0, error |-> 2 * dx + 2 * dy,
                                        fill_x |-> -1, fill_y |-> -1,
                                        fill_w |-> -1, fill_h |-> -1,
                                        sink |-> << >>, visited |-> <<<<xa, ys0>>>>])
            IN [sink |-> l.sink,
                visited |-> l.visited]

\* draw_line with the error accumulator started at 2*dx.
draw_line_run_error_dx(wi, color, width, x0, y0, x1, y1) ==
    LET ltoff == (width - 1) \div 2
        xa == x0 - ltoff
        ya == y0 - ltoff
        xb == x1 - ltoff
        yb == y1 - ltoff
        dx == Abs(xb - xa)
        dy == 0 - Abs(yb - ya)
        mdy == 0 - dy
    IN IF dx = 0 /\ dy = 0
       THEN [sink |-> fill(wi, color, xa, ya, width, width), visited |-> << >>]
       ELSE IF dy = 0
       THEN [sink |-> fill(wi, color, IF xa > xb THEN xb ELSE xa, ya, dx + width, width),
             visited |-> << >>]
       ELSE IF dx = 0
       THEN [sink |-> fill(wi, color, xa, IF ya > yb THEN yb ELSE ya, width, mdy + width),
             visited |-> << >>]
       ELSE LET ys0 == ya + wi.yshift
                ys1 == yb + wi.yshift
                c == [wi |-> wi, color |-> color, width |-> width, x1 |-> xb, y1 |-> ys1,
                      dx |-> dx, dy |-> dy,
                      sx |-> IF xa < xb THEN 1 ELSE -1,
                      sy |-> IF ys0 < ys1 THEN 1 ELSE -1]
                l == draw_line_loop(c, [x0 |-> xa, y0 |-> ys0, error |-> 2 * dx,
                                        fill_x |-> -1, fill_y |-> -1,
                                        fill_w |-> -1, fill_h |-> -1,
                                        sink |-> << >>, visited |-> <<<<xa, ys0>>>>])
            IN [sink |-> IF l.fill_x # -1
                         THEN Append(l.sink, SinkFill(color, wi.xpos + l.fill_x,
                                                      wi.ypos + l.fill_y, l.fill_w, l.fill_h))
                         ELSE l.sink,
                visited |-> l.visited]

\* WatchGraphics.draw_line: the calls on the display and, for a line that is
\* neither a point nor horizontal nor vertical, the points the loop visits.
draw_line_run(wi, color, width, x0, y0, x1, y1) ==
    LET ltoff == (width - 1) \div 2
        xa == x0 - ltoff
        ya == y0 - ltoff
        xb == x1 - ltoff
        yb == y1 - ltoff
        dx == Abs(xb - xa)
        dy == 0 - Abs(yb - ya)
        mdy == 0 - dy
    IN IF dx = 0 /\ dy = 0
       THEN [sink |-> fill(wi, color, xa, ya, width, width), visited |-> << >>]
       ELSE IF dy = 0
       THEN [sink |-> fill(wi, color, IF xa > xb THEN xb ELSE xa, ya, dx + width, width),
             visited |-> << >>]
       ELSE IF dx = 0
       THEN [sink |-> fill(wi, color, xa, IF ya > yb THEN yb ELSE ya, width, mdy + width),
             visited |-> << >>]
       ELSE LET ys0 == ya + wi.yshift
                ys1 == yb + wi.yshift
                c == [wi |-> wi, color |-> color, width |-> width, x1 |-> xb, y1 |-> ys1,
                      dx |-> dx, dy |-> dy,
                      sx |-> IF xa < xb THEN 1 ELSE -1,
                      sy |-> IF ys0 < ys1 THEN 1 ELSE -1]
                l == draw_line_loop(c, [x0 |-> xa, y0 |-> ys0, error |-> 2 * dx + 2 * dy,
                                        fill_x |-> -1, fill_y |-> -1,
                                        fill_w |-> -1, fill_h |-> -1,
                                        sink |-> << >>, visited |-> <<<<xa, ys0>>>>])
            IN [sink |-> IF l.fill_x # -1
                         THEN Append(l.sink, SinkFill(color, wi.xpos + l.fill_x,
                                                      wi.ypos + l.fill_y, l.fill_w, l.fill_h))
                         ELSE l.sink,
                visited |-> l.visited]

\* WatchGraphics.draw_line
draw_line(wi, color, width, x0, y0, x1, y1) ==
    draw_line_run(wi, color, width, x0, y0, x1, y1).sink

\* math.sin and math.cos of theta degrees, in ten-thousandths, for the angles
\* the model draws.  The floating-point values of sin(180), cos(90) and cos(270)
\* are below 1e-15 in size, and a product with a radius truncates to 0.
math_sin(theta) ==
    CASE theta = 0 -> 0 [] theta = 45 -> 7071 [] theta = 90 -> 10000
      [] theta = 180 -> 0 [] theta = 270 -> -10000
math_cos(theta) ==
    CASE theta = 0 -> 10000 [] theta = 45 -> 7071 [] theta = 90 -> 0
      [] theta = 180 -> -10000 [] theta = 270 -> 0

\* int(delta * r): the product truncated toward zero; delta in ten-thousandths.
int_of(delta, r) ==
    IF delta * r >= 0 THEN (delta * r) \div 10000 ELSE 0 - ((0 - delta * r) \div 10000)

\* WatchGraphics.draw_line_polar: y0 and y1 are computed from x, and draw_line
\* is called as draw_line(x0, y0, x1, y1, width, color), so that its parameters
\* color, width, x0, y0, x1, y1 receive these values in this order.
draw_line_polar(wi, color, x, y, theta, r0, r1, width) ==
    LET xdelta == math_sin(theta)
        ydelta == math_cos(theta)
        x0 == x + int_of(xdelta, r0)
        x1 == x + int_of(xdelta, r1)
        y0 == x - int_of(ydelta, r0)
        y1 == x - int_of(ydelta, r1)
    IN draw_line(wi, x0, y0, x1, y1, width, color)

----------------------------------------------------------------------------
(* SpecDraw: a WatchGraphics on a display; a component's window is made the *)
(* active one and a drawing call is made in it.  The calls do not depend on *)
(* one another, so one call is followed by the next change of the window.  *)

\* Largest coordinate given to fill and blit.
MaxCoord == 4

\* Largest width and height given to fill.
MaxSize == 4

\* Largest line thickness.
MaxThick == 3

\* Largest coordinate of a line's end points.
MaxLine == 4

\* Largest radius given to draw_line_polar.
MaxRadius == 2

Coords == -2 .. MaxCoord
Sizes == -1 .. MaxSize
LineCoords == -1 .. MaxLine
Colors == {7}

\* Centres, angles (degrees) and radii given to draw_line_polar.
PolarCentres == {1, 2}
Thetas == {0, 45, 90, 180, 270}
Radii == 0 .. MaxRadius

\* x, y, width, height and shift_y of the windows.
Windows == {<<0, 0, 4, 3, 0>>, <<3, 5, 4, 3, 0>>, <<3, 5, 4, 3, -1>>, <<16, 0, 3, 4, 2>>}

\* The fresh images given to blit.
BlitDummyDims == {<<3, 2>>, <<5, 4>>}
Images ==
    {<<Dummy_init(d[1], d[2])>> : d \in BlitDummyDims}
    \cup {<<Mono_setup(PackedData(d[1], d[2], b), d[1], d[2])>> :
             d \in MonoDims, b \in ByteVals}

scrOther == <<components, update_array, draw_log, notify_log, pending, notified,
              tainted, last_op, pc, n2, spin>>

GCall(op, a, image, raised) == [op |-> op, a |-> a, image |-> image, raised |-> raised]

Ready == g_last.op \in {"init", "context"}

\* WatchGraphics(display)
InitDraw ==
    /\ components = << >> /\ update_array = << >>
    /\ draw_log = << >> /\ notify_log = << >> /\ pending = FALSE /\ notified = {}
    /\ tainted = FALSE /\ last_op = << >> /\ pc = "unused" /\ n2 = 0 /\ spin = 0
    /\ window_info = set_component_context(0, 0, ScreenDisplay.width, ScreenDisplay.height, 0)
    /\ sink = << >>
    /\ g_last = GCall("init", << >>, << >>, FALSE)
    /\ g_image = << >>
    /\ BuildUnused /\ StreamUnused

\* wg._set_component_context(x, y, width, height, shift_y)
SetComponentContext ==
    \E w \in Windows :
       /\ window_info' = set_component_context(w[1], w[2], w[3], w[4], w[5])
       /\ sink' = << >>
       /\ g_last' = GCall("context", w, << >>, FALSE)
       /\ g_image' = << >>
       /\ UNCHANGED <<scrOther, bldVars, strVars>>

\* wg.fill(color, x, y, width, height)
Fill ==
    /\ Ready
    /\ \E color \in Colors, x \in Coords, y \in Coords, width \in Sizes, height \in Sizes :
          /\ sink' = fill(window_info, color, x, y, width, height)
          /\ g_last' = GCall("fill", <<color, x, y, width, height>>, << >>, FALSE)
    /\ UNCHANGED <<window_info, g_image, scrOther, bldVars, strVars>>

\* wg.blit(image, x, y)
Blit ==
    /\ Ready
    /\ \E image \in Images, x \in Coords, y \in Coords,
          display_reads \in BOOLEAN, oob \in OobChoices :
          LET b == blit(window_info, image, x, y, display_reads, oob) IN
          /\ sink' = b.sink
          /\ g_image' = b.image
          /\ g_last' = GCall("blit", <<x, y>>, image, b.raised)
    /\ UNCHANGED <<window_info, scrOther, bldVars, strVars>>

\* wg.draw_line(color, width, x0, y0, x1, y1)
DrawLine ==
    /\ Ready
    /\ \E color \in Colors, width \in 1 .. MaxThick,
          x0 \in LineCoords, y0 \in LineCoords, x1 \in LineCoords, y1 \in LineCoords :
          /\ sink' = draw_line(window_info, color, width, x0, y0, x1, y1)
          /\ g_last' = GCall("draw_line", <<color, width, x0, y0, x1, y1>>, << >>, FALSE)
    /\ UNCHANGED <<window_info, g_image, scrOther, bldVars, strVars>>

\* wg.draw_line_polar(color, x, y, theta, r0, r1, width)
DrawLinePolar ==
    /\ Ready
    /\ \E color \in Colors, x \in PolarCentres, y \in PolarCentres, theta \in Thetas,
          r0 \in Radii, r1 \in Radii, width \in 1 .. MaxThick :
          /\ sink' = draw_line_polar(window_info, color, x, y, theta, r0, r1, width)
          /\ g_last' = GCall("draw_line_polar", <<color, x, y, theta, r0, r1, width>>,
                             << >>, FALSE)
    /\ UNCHANGED <<window_info, g_image, scrOther, bldVars, strVars>>

NextDraw ==
    \/ SetComponentContext
    \/ Fill
    \/ Blit
    \/ DrawLine
    \/ DrawLinePolar

SpecDraw == InitDraw /\ [][NextDraw]_vars

----------------------------------------------------------------------------
(* Claims about drawing. *)

\* The intersection of [lo, lo + size) with [0, limit): its start and its size.
ClipLo(lo) == Max(lo, 0)
ClipSize(lo, size, limit) == Min(lo + size, limit) - Max(lo, 0)

\* C16: fill(color, x, y, w, h) in the window (X, Y, W, H, s) makes one call
\* wgl_fill(color, X + rx, Y + ry, rw, rh), with (rx, ry, rw, rh) the
\* intersection of [x, x+w) x [y+s, y+s+h) with [0, W) x [0, H), and no call
\* when the intersection is empty.
C16_FillClipsToWindow ==
    g_last.op = "fill" =>
       LET color == g_last.a[1]
           x == g_last.a[2]
           y == g_last.a[3] + window_info.yshift
           rw == ClipSize(x, g_last.a[4], window_info.width)
           rh == ClipSize(y, g_last.a[5], window_info.height)
       IN IF rw > 0 /\ rh > 0
          THEN sink = <<SinkFill(color, window_info.xpos + ClipLo(x),
                                 window_info.ypos + ClipLo(y), rw, rh)>>
          ELSE sink = << >>

\* C16's case: a fill in a shifted window away from the display origin that is
\* clipped at the left and at the bottom and still reaches the display.
C16_Witness ==
    /\ g_last.op = "fill" /\ Len(sink) = 1
    /\ window_info.xpos > 0 /\ window_info.yshift # 0
    /\ g_last.a[2] < 0
    /\ g_last.a[3] + window_info.yshift + g_last.a[5] > window_info.height

\* C17: a blit(image, x, y) that reaches the display calls wgl_blit at
\* (X + x', Y + y'), with (x', y') the top-left corner of the visible part of the
\* image placed at (x, y + s), whether or not the image is clipped.
C17_BlitAtDeviceCoordinates ==
    (g_last.op = "blit" /\ sink # << >>) =>
       /\ sink[1].x = window_info.xpos + ClipLo(g_last.a[1])
       /\ sink[1].y = window_info.ypos + ClipLo(g_last.a[2] + window_info.yshift)

\* C18: the stream blit hands to the display has the width and height of the
\* intersection of the image with the window and delivers the image pixels
\* inside it in row-major order; it is the image itself when no edge is clipped,
\* and else it is wrapped in a vertical crop exactly when the top or bottom is
\* clipped and in a horizontal crop exactly when the left or right is clipped.
C18_BlitHandsVisiblePart ==
    (g_last.op = "blit" /\ sink # << >>) =>
       LET handed == sink[1].image
           image == g_last.image
           w == image[1].width
           h == image[1].height
           x == g_last.a[1]
           y == g_last.a[2] + window_info.yshift
           rw == ClipSize(x, w, window_info.width)
           rh == ClipSize(y, h, window_info.height)
           clip_v == y < 0 \/ y + h > window_info.height
           clip_h == x < 0 \/ x + w > window_info.width
           vcrops == {lv \in 1 .. Len(handed) : handed[lv].kind = "vcrop"}
           hcrops == {lv \in 1 .. Len(handed) : handed[lv].kind = "hcrop"}
           noload == [raise |-> FALSE, byte |-> 0]
           pixels == ReadAll(image, w * h, noload).out
       IN /\ sink[1].width = rw /\ sink[1].height = rh
          /\ (~clip_v /\ ~clip_h) => handed = image
          /\ Cardinality(vcrops) = IF clip_v THEN 1 ELSE 0
          /\ Cardinality(hcrops) = IF clip_h THEN 1 ELSE 0
          /\ Len(handed) = 1 + Cardinality(vcrops) + Cardinality(hcrops)
          /\ ReadAll(handed, rw * rh, noload).out =
                [i \in 1 .. rw * rh |->
                    pixels[(ClipLo(y) - y + ((i - 1) \div rw)) * w
                           + (ClipLo(x) - x) + ((i - 1) % rw) + 1]]

\* C18's case: an image wider and taller than the window, placed left of and
\* above it, handed over in both crops.
C18_Witness ==
    /\ g_last.op = "blit" /\ Len(sink) = 1
    /\ Len(sink[1].image) = 3
    /\ g_last.a[1] < 0 /\ g_last.a[2] + window_info.yshift < 0
    /\ sink[1].width > 1 /\ sink[1].height > 1

\* C19: fill and blit never raise, wherever the rectangle or the fresh image
\* lies, and make no call on the display when nothing of it is inside the window.
C19_DrawingNeverRaises ==
    g_last.op \in {"fill", "blit"} =>
       LET is_fill == g_last.op = "fill"
           x == IF is_fill THEN g_last.a[2] ELSE g_last.a[1]
           y == (IF is_fill THEN g_last.a[3] ELSE g_last.a[2]) + window_info.yshift
           w == IF is_fill THEN g_last.a[4] ELSE g_last.image[1].width
           h == IF is_fill THEN g_last.a[5] ELSE g_last.image[1].height
           empty == \/ ClipSize(x, w, window_info.width) <= 0
                    \/ ClipSize(y, h, window_info.height) <= 0
       IN /\ ~g_last.raised
          /\ empty => sink = << >>

\* C20: draw_line(color, t, x0, y0, x1, y1) between two points on one row or one
\* column makes the calls of one fill: with off = (t-1) \div 2, the rectangle at
\* (min(x0,x1) - off, min(y0,y1) - off) of size (|x1-x0| + t, |y1-y0| + t),
\* clipped to the window; one call when it meets the window, else none.
C20_StraightLineIsOneFill ==
    (g_last.op = "draw_line" /\ (g_last.a[3] = g_last.a[5] \/ g_last.a[4] = g_last.a[6])) =>
       LET color == g_last.a[1]
           t == g_last.a[2]
           off == (t - 1) \div 2
           x == Min(g_last.a[3], g_last.a[5]) - off
           y == Min(g_last.a[4], g_last.a[6]) - off + window_info.yshift
           rw == ClipSize(x, Abs(g_last.a[5] - g_last.a[3]) + t, window_info.width)
           rh == ClipSize(y, Abs(g_last.a[6] - g_last.a[4]) + t, window_info.height)
       IN IF rw > 0 /\ rh > 0
          THEN sink = <<SinkFill(color, window_info.xpos + ClipLo(x),
                                 window_info.ypos + ClipLo(y), rw, rh)>>
          ELSE sink = << >>

\* C20's case: a horizontal line drawn right to left with a thickness that
\* moves the rectangle up and to the left, reaching the display.
C20_Witness ==
    /\ g_last.op = "draw_line" /\ Len(sink) = 1
    /\ g_last.a[4] = g_last.a[6] /\ g_last.a[3] > g_last.a[5]
    /\ g_last.a[2] = 3
    /\ sink[1].width = g_last.a[3] - g_last.a[5] + 3

\* A draw_line call between two points that share neither a row nor a column.
SlantedLine ==
    /\ g_last.op = "draw_line"
    /\ g_last.a[3] # g_last.a[5] /\ g_last.a[4] # g_last.a[6]

\* The points the stepping loop of the last draw_line call visited, in window
\* coordinates (the y shift of the window applied).
Visited ==
    draw_line_run(window_info, g_last.a[1], g_last.a[2], g_last.a[3], g_last.a[4],
                  g_last.a[5], g_last.a[6]).visited

\* The window pixels of the t x t square placed at point p.
SquarePixels(p, t) ==
    {<<i, j>> \in (Max(p[1], 0) .. Min(p[1] + t, window_info.width) - 1)
                  \X (Max(p[2], 0) .. Min(p[2] + t, window_info.height) - 1) : TRUE}

\* The pixels of all squares of the last draw_line call.
LinePixels ==
    UNION {SquarePixels(Visited[k], g_last.a[2]) : k \in 1 .. Len(Visited)}

\* The pixels, in window coordinates, of the rectangle of one wgl_fill call.
RectPixels(call) ==
    {<<i, j>> \in (call.x - window_info.xpos .. call.x - window_info.xpos + call.width - 1)
                  \X (call.y - window_info.ypos .. call.y - window_info.ypos + call.height - 1) :
        TRUE}

\* C21: for a draw_line between points on different rows and columns, every
\* window pixel of every square placed at a visited point is inside a rectangle
\* sent to the display.
C21_LineCoversSquares ==
    SlantedLine => LinePixels \subseteq UNION {RectPixels(sink[k]) : k \in 1 .. Len(sink)}

\* C21's case: a thick slanted line clipped by the window whose squares were
\* sent as more than one rectangle.
C21_Witness ==
    /\ SlantedLine /\ g_last.a[2] > 1 /\ Len(sink) > 1
    /\ \E k \in 1 .. Len(Visited) : Visited[k][1] < 0

\* C22: for a draw_line between points on different rows and columns, every
\* rectangle sent to the display is a wgl_fill that covers only window pixels
\* of squares placed at visited points.
C22_LinePaintsOnlySquares ==
    SlantedLine =>
       \A k \in 1 .. Len(sink) :
          /\ sink[k].fn = "wgl_fill"
          /\ sink[k].width > 0 /\ sink[k].height > 0
          /\ RectPixels(sink[k]) \subseteq LinePixels

\* C25: draw_line_polar(color, x, y, theta, r0, r1, width) makes the calls of
\* draw_line(color, width, x0, y0, x1, y1) with
\* (x0, y0) = (x + int(sin(theta) * r0), y - int(cos(theta) * r0)) and
\* (x1, y1) = (x + int(sin(theta) * r1), y - int(cos(theta) * r1)).
C25_PolarDelegates ==
    g_last.op = "draw_line_polar" =>
       LET color == g_last.a[1]
           x == g_last.a[2]
           y == g_last.a[3]
           theta == g_last.a[4]
           r0 == g_last.a[5]
           r1 == g_last.a[6]
           width == g_last.a[7]
       IN sink = draw_line(window_info, color, width,
                           x + int_of(math_sin(theta), r0), y - int_of(math_cos(theta), r0),
                           x + int_of(math_sin(theta), r1), y - int_of(math_cos(theta), r1))

Sign(a) == IF a < 0 THEN -1 ELSE IF a > 0 THEN 1 ELSE 0

\* C28: for a draw_line between points on different rows and columns the
\* stepping loop ends after at most |x1-x0| + |y1-y0| steps; the points it
\* visits start at the first end point, end at the second (both moved by the
\* thickness offset), and each step changes x and y by at most 1, towards the
\* second end point.
C28_StepperReachesEnd ==
    SlantedLine =>
       LET off == (g_last.a[2] - 1) \div 2
           first == <<g_last.a[3] - off, g_last.a[4] - off + window_info.yshift>>
           second == <<g_last.a[5] - off, g_last.a[6] - off + window_info.yshift>>
           sx == Sign(second[1] - first[1])
           sy == Sign(second[2] - first[2])
       IN /\ Visited[1] = first
          /\ Visited[Len(Visited)] = second
          /\ Len(Visited) <= Abs(second[1] - first[1]) + Abs(second[2] - first[2]) + 1
          /\ \A k \in 1 .. Len(Visited) - 1 :
                /\ Visited[k + 1][1] - Visited[k][1] \in {0, sx}
                /\ Visited[k + 1][2] - Visited[k][2] \in {0, sy}
                /\ Visited[k + 1] # Visited[k]

\* C28's case: a line that is steeper than it is wide, drawn towards smaller x
\* and larger y, in a shifted window.
C28_Witness ==
    /\ SlantedLine /\ window_info.yshift # 0
    /\ g_last.a[5] < g_last.a[3] /\ g_last.a[6] > g_last.a[4] + 2
    /\ Len(Visited) > 3

\* C31: a blit that makes no call on the display because nothing of the image
\* is inside the window (it lies outside it horizontally or vertically) consumes
\* nothing from the image: get_remaining() of the image is what it was before
\* the call, also when the image would need vertical clipping as well.
C31_DroppedBlitConsumesNothing ==
    (g_last.op = "blit" /\ ~g_last.raised /\ sink = << >>) =>
        get_remaining(g_image, 1) = get_remaining(g_last.image, 1)

====
